---- MODULE Spec2Model ----
(***************************************************************************)
(* Complaint pivot reports of ml_project/backend_api/                      *)
(* fastapi_analysis_helper.py, and the FastAPI service of                  *)
(* fastapi_router.py that serves them.                                     *)
(*                                                                         *)
(* Spec calls the report functions on complete spreadsheets, SchemaSpec on *)
(* spreadsheets with a column missing, FlattenSpec on spreadsheets whose   *)
(* departments and statuses bear underscores, and ServerSpec runs two HTTP *)
(* requests against a stored file that uploads replace.  DashboardSpec is  *)
(* the upload of app.py on the directory data/raw, LauncherSpec the        *)
(* launcher of run.py with its child processes and signals, FetcherSpec    *)
(* the cached fetchers of streamlit_cache_data.py.                         *)
(*                                                                         *)
(* The stored spreadsheet is a sequence of complaint records.  Strings are *)
(* sequences of one-character strings, so that str.strip, str.lower and    *)
(* str.title are computed character by character, as Python does.  A blank *)
(* spreadsheet cell is NaN.  The pandas calls are modelled with the        *)
(* behaviour of pandas 2.x (pivot_table groups with dropna=True and        *)
(* observed=False).                                                        *)
(***************************************************************************)
EXTENDS Integers, Sequences, FiniteSets, TLC

VARIABLES
  dataset,   \* the rows of the spreadsheet stored at dataset_path
  header,    \* the column names of the stored spreadsheet
  exists,    \* whether a file exists at dataset_path
  today,     \* the day pd.Timestamp.today() returns
  op,        \* the report function called last, "none" before a call
  result,    \* what that call returned or raised
  requests,  \* the HTTP requests of the FastAPI service
  raw_dir,   \* the entries of the directory data/raw of the dashboard
  upload,    \* the dashboard's handling of the uploaded file
  processes,       \* run.py: the names recorded in processes, in order
  shutdown_event,  \* run.py: whether shutdown_event is set
  children,        \* run.py: the child processes and the calls made on them
  launcher,        \* run.py: the main thread of the launcher
  api,       \* what fastapi_api_request_url does when it is called now
  cache,     \* the entries of st.cache_data of the dashboard fetchers
  fetched    \* the fetcher called last and what it returned

service_vars == << dataset, header, exists, today, op, result, requests >>
dashboard_vars == << raw_dir, upload >>
launcher_vars == << processes, shutdown_event, children, launcher >>

fetcher_vars == << api, cache, fetched >>

vars == << service_vars, dashboard_vars, launcher_vars, fetcher_vars >>

(***************************************************************************)
(* Bounds of the model.                                                    *)
(***************************************************************************)
MaxRecords == 2
MaxAge == 200

(***************************************************************************)
(* Characters, in code-point order: space < A..Z < _ < a..z.               *)
(***************************************************************************)
Chars ==
  << " ",
     "A", "B", "C", "D", "E", "F", "G", "H", "I", "J", "K", "L", "M",
     "N", "O", "P", "Q", "R", "S", "T", "U", "V", "W", "X", "Y", "Z",
     "_",
     "a", "b", "c", "d", "e", "f", "g", "h", "i", "j", "k", "l", "m",
     "n", "o", "p", "q", "r", "s", "t", "u", "v", "w", "x", "y", "z" >>

CharSet == { Chars[i] : i \in 1..Len(Chars) }

Code == [ c \in CharSet |-> CHOOSE i \in 1..Len(Chars) : Chars[i] = c ]

IsUpper(c) == Code[c] \in 2..27
IsLower(c) == Code[c] \in 29..54
IsSpace(c) == c = " "
ToLower(c) == IF IsUpper(c) THEN Chars[Code[c] + 27] ELSE c
ToUpper(c) == IF IsLower(c) THEN Chars[Code[c] - 27] ELSE c

(* A blank cell, and what astype(str) makes of it. *)
NaN == << "NaN" >>
nan == << "n", "a", "n" >>
IsNaN(v) == v = NaN

(* str.lower() *)
lower(s) == [ i \in 1..Len(s) |-> ToLower(s[i]) ]

(* str.strip(): whitespace removed from both ends. *)
RECURSIVE lstrip(_)
lstrip(s) == IF s # << >> /\ IsSpace(Head(s)) THEN lstrip(Tail(s)) ELSE s

RECURSIVE rstrip(_)
rstrip(s) ==
  IF s # << >> /\ IsSpace(s[Len(s)]) THEN rstrip(SubSeq(s, 1, Len(s) - 1)) ELSE s

strip(s) == rstrip(lstrip(s))

(* str.strip('_'): underscores removed from both ends. *)
RECURSIVE lstrip_us(_)
lstrip_us(s) == IF s # << >> /\ Head(s) = "_" THEN lstrip_us(Tail(s)) ELSE s

RECURSIVE rstrip_us(_)
rstrip_us(s) ==
  IF s # << >> /\ s[Len(s)] = "_" THEN rstrip_us(SubSeq(s, 1, Len(s) - 1)) ELSE s

strip_us(s) == rstrip_us(lstrip_us(s))

(* str.title(): a cased character is upper case after an uncased one and   *)
(* lower case after a cased one.                                           *)
IsCased(c) == IsUpper(c) \/ IsLower(c)

title(s) ==
  [ i \in 1..Len(s) |->
      IF i > 1 /\ IsCased(s[i - 1]) THEN ToLower(s[i]) ELSE ToUpper(s[i]) ]

(* astype(str) *)
astype_str(v) == IF IsNaN(v) THEN nan ELSE v

(* The cleaning without its last step, str.title(). *)
clean_without_title(v) == strip(astype_str(v))

(* .astype(str).str.strip().str.title() *)
clean(v) == title(strip(astype_str(v)))

(* '_'.join(map(str, col)) for a two-level column label *)
join_us(col) == col[1] \o << "_" >> \o col[2]

(***************************************************************************)
(* Order of strings (code points, then length) and of column labels.       *)
(***************************************************************************)
RECURSIVE StrLess(_, _)
StrLess(a, b) ==
  IF a = << >> THEN b # << >>
  ELSE IF b = << >> THEN FALSE
  ELSE IF Head(a) = Head(b) THEN StrLess(Tail(a), Tail(b))
  ELSE Code[Head(a)] < Code[Head(b)]

PairLess(a, b) ==
  \/ StrLess(a[1], b[1])
  \/ a[1] = b[1] /\ StrLess(a[2], b[2])

RECURSIVE SortStrings(_)
SortStrings(S) ==
  IF S = {} THEN << >>
  ELSE LET m == CHOOSE x \in S : \A y \in S \ {x} : StrLess(x, y)
       IN  << m >> \o SortStrings(S \ {m})

RECURSIVE SortPairs(_)
SortPairs(S) ==
  IF S = {} THEN << >>
  ELSE LET m == CHOOSE x \in S : \A y \in S \ {x} : PairLess(x, y)
       IN  << m >> \o SortPairs(S \ {m})

(***************************************************************************)
(* Cells of the spreadsheet.                                               *)
(*   DATE   : a date (a day number), a blank cell, or text that is no date *)
(*   SL_NO  : a serial number or a blank cell                              *)
(*   COMPLAINT_TYPE, DEPT, CLOSED_OPEN : a string or NaN                   *)
(***************************************************************************)
Date(d) == [kind |-> "date", day |-> d]
BlankDate == [kind |-> "blank", day |-> 0]
TextDate == [kind |-> "text", day |-> 0]
Num(n) == [kind |-> "num", val |-> n]
BlankNum == [kind |-> "blank", val |-> 0]

COMPLAINT_TYPE_COL == << "C","O","M","P","L","A","I","N","T"," ","T","Y","P","E" >>
Grand_Total == << "G","r","a","n","d","_","T","o","t","a","l" >>
open_str == << "o","p","e","n" >>

(* The six labels of pd.cut, by position, and its bin edges (the last     *)
(* edge, float('inf'), is the open end of the last bin).                  *)
labels ==
  << << "<","1","5","D","a","y","s" >>,
     << "1","6","-","3","0","D","a","y","s" >>,
     << "3","1","-","6","0","D","a","y","s" >>,
     << "6","1","-","9","0","D","a","y","s" >>,
     << "9","1","-","1","8","0","D","a","y","s" >>,
     << ">","1","8","0","D","a","y","s" >> >>

bins == << 0, 15, 30, 60, 90, 180 >>

(* pd.cut(age, bins, labels, right=True, include_lowest=True): the        *)
(* position of the label, 0 for NaN (no bin holds the value).             *)
cut_right_open(age) ==
  IF age < bins[1] THEN 0
  ELSE CHOOSE i \in 1..Len(bins) :
         /\ bins[i] <= age
         /\ (i < Len(bins) => age < bins[i + 1])

cut(age) ==
  IF age < bins[1] THEN 0
  ELSE IF age = bins[1] THEN 1
  ELSE CHOOSE i \in 1..Len(bins) :
         /\ bins[i] < age
         /\ (i < Len(bins) => age <= bins[i + 1])

(* df['Age_Days'] = (today - df['DATE']).dt.days, then pd.cut: NaT gives  *)
(* NaN days and no bucket.                                                 *)
Age_Days(r, now) == now - r.DATE.day

Age_Bucket(r, now) ==
  IF r.DATE.kind = "blank" THEN 0 ELSE cut(Age_Days(r, now))

(***************************************************************************)
(* Data frames: index labels, column labels and a matrix of counts.        *)
(***************************************************************************)
Frame(idx, cols, data) == [index |-> idx, columns |-> cols, data |-> data]

(* A NaN cell of a table of counts is written -1: no count is negative. *)
NaN_cell == -1

(* The sum of a row or a column; a NaN cell is skipped (skipna=True). *)
RECURSIVE SumSeq(_)
SumSeq(s) ==
  IF s = << >> THEN 0
  ELSE (IF Head(s) = NaN_cell THEN 0 ELSE Head(s)) + SumSeq(Tail(s))

(* DataFrame.sum(axis=1) and DataFrame.sum(axis=0) *)
sum_axis1(f) == [ i \in 1..Len(f.index) |-> SumSeq(f.data[i]) ]

sum_axis0(f) ==
  [ j \in 1..Len(f.columns) |->
      SumSeq([ i \in 1..Len(f.index) |-> f.data[i][j] ]) ]

HasDuplicates(s) == \E i, j \in 1..Len(s) : i < j /\ s[i] = s[j]

(* frame[name] = values on flat column labels: an existing label is         *)
(* overwritten (each column that bears it), a new one is appended.          *)
set_column(f, name, values) ==
  IF \E j \in 1..Len(f.columns) : f.columns[j] = name
  THEN Frame(f.index, f.columns,
             [ i \in 1..Len(f.index) |->
                 [ j \in 1..Len(f.columns) |->
                     IF f.columns[j] = name THEN values[i] ELSE f.data[i][j] ] ])
  ELSE Frame(f.index, Append(f.columns, name),
             [ i \in 1..Len(f.index) |-> Append(f.data[i], values[i]) ])

(* frame[name] = values on multi-level column labels: name selects every    *)
(* column whose first level is name; a new label is (name, '', ...).        *)
set_column_multi(f, name, newlabel, values) ==
  IF \E j \in 1..Len(f.columns) : f.columns[j][1] = name
  THEN Frame(f.index, f.columns,
             [ i \in 1..Len(f.index) |->
                 [ j \in 1..Len(f.columns) |->
                     IF f.columns[j][1] = name THEN values[i] ELSE f.data[i][j] ] ])
  ELSE Frame(f.index, Append(f.columns, newlabel),
             [ i \in 1..Len(f.index) |-> Append(f.data[i], values[i]) ])

(* frame.loc[name] = values: an existing row is overwritten, a new one is   *)
(* appended.                                                                *)
set_row(f, name, values) ==
  IF \E i \in 1..Len(f.index) : f.index[i] = name
  THEN Frame(f.index, f.columns,
             [ i \in 1..Len(f.index) |->
                 IF f.index[i] = name THEN values ELSE f.data[i] ])
  ELSE Frame(Append(f.index, name), f.columns, Append(f.data, values))

(* reset_index(): the index becomes the first column, COMPLAINT TYPE.  The  *)
(* rows are lists of (label, value).                                        *)
reset_index(f) ==
  [ i \in 1..Len(f.index) |->
      << << COMPLAINT_TYPE_COL, f.index[i] >> >> \o
      [ j \in 1..Len(f.columns) |-> << f.columns[j], f.data[i][j] >> ] ]

(* The rows without the index (to_dict on a frame whose index was not reset)*)
drop_index(f) ==
  [ i \in 1..Len(f.index) |->
      [ j \in 1..Len(f.columns) |-> << f.columns[j], f.data[i][j] >> ] ]

(* A dict built from (key, value) pairs: a repeated key keeps its first     *)
(* position and its last value.                                             *)
RECURSIVE as_dict(_)
as_dict(row) ==
  IF row = << >> THEN << >>
  ELSE LET n == Len(row)
           front == as_dict(SubSeq(row, 1, n - 1))
           last == row[n]
       IN  IF \E k \in 1..Len(front) : front[k][1] = last[1]
           THEN [ k \in 1..Len(front) |->
                    IF front[k][1] = last[1] THEN last ELSE front[k] ]
           ELSE Append(front, last)

(* to_dict(orient='records') and to_dict(): both build dicts keyed by the   *)
(* column labels.                                                           *)
to_dict(rows) == [ i \in 1..Len(rows) |-> as_dict(rows[i]) ]

Ok(shape, table) == [status |-> "ok", shape |-> shape, table |-> table, error |-> ""]
Failed(e) == [status |-> "error", shape |-> "", table |-> << >>, error |-> e]
NoResult == [status |-> "none", shape |-> "", table |-> << >>, error |-> ""]

(***************************************************************************)
(* pd.pivot_table with a counting aggregate.  index, columns and counted   *)
(* are the series of the frame, one entry per record: its row key, its     *)
(* column key and whether the aggregate counts it.  The cell of row label  *)
(* idx[i] and column label cols[j] counts the records with these keys that *)
(* the aggregate counts.                                                   *)
(***************************************************************************)
(* The grouped counts laid out as a table (unstack): a combination of row  *)
(* and column label that no record has is a NaN cell.                      *)
unstack(idx, cols, index, columns, counted) ==
  Frame(idx, cols,
        [ i \in 1..Len(idx) |->
            [ j \in 1..Len(cols) |->
                IF \E k \in 1..Len(index) :
                     index[k] = idx[i] /\ columns[k] = cols[j]
                THEN Cardinality({ k \in 1..Len(index) :
                                     /\ counted[k]
                                     /\ index[k] = idx[i]
                                     /\ columns[k] = cols[j] })
                ELSE NaN_cell ] ])

(* A fill that is left out: the NaN cells stay. *)
fillna_skipped(f, value) == f

(* fill_value=0: table.fillna(fill_value) *)
fillna(f, value) ==
  Frame(f.index, f.columns,
        [ i \in 1..Len(f.index) |->
            [ j \in 1..Len(f.columns) |->
                IF f.data[i][j] = NaN_cell THEN value ELSE f.data[i][j] ] ])

pivot_table(idx, cols, index, columns, counted) ==
  fillna(unstack(idx, cols, index, columns, counted), 0)

(* frame.astype(int) raises on a NaN cell. *)
astype_int_fails(f) ==
  \E i \in 1..Len(f.index) : \E j \in 1..Len(f.columns) : f.data[i][j] = NaN_cell

(* The distinct values of a series. *)
Values(series) == { series[k] : k \in 1..Len(series) }

(* df['CLOSED/OPEN'].str.lower().str.strip() == 'open'; NaN compares False *)
IsOpen(r) ==
  /\ ~IsNaN(r.CLOSED_OPEN)
  /\ strip(lower(r.CLOSED_OPEN)) = open_str

(* Series.str exists only on a column of strings: a column of blank cells  *)
(* alone is read as float64 and .str raises AttributeError.                *)
str_accessor_fails(df) ==
  /\ Len(df) > 0
  /\ \A k \in 1..Len(df) : IsNaN(df[k].CLOSED_OPEN)

(* pd.to_datetime(df['DATE']) raises on text that is no date. *)
to_datetime_fails(df) == \E k \in 1..Len(df) : df[k].DATE.kind = "text"

(* The two totals: frame['Grand_Total'] = frame.sum(axis=1), then           *)
(* frame.loc['Grand_Total'] = frame.sum(axis=0).                            *)
add_grand_totals(f) ==
  LET with_column == set_column(f, Grand_Total, sum_axis1(f))
  IN  set_row(with_column, Grand_Total, sum_axis0(with_column))

(***************************************************************************)
(* open_complaint_pivot                                                    *)
(***************************************************************************)
open_complaint_pivot(df) ==
  IF str_accessor_fails(df) THEN Failed("AttributeError")
  ELSE
    LET df_open == SelectSeq(df, IsOpen)
        \* df['COMPLAINT TYPE'] is cleaned in df after df_open was copied
        \* out of it: df_open keeps the raw values.
        RowKey(r) == r.COMPLAINT_TYPE
        ColKey(r) == r.DEPT
        \* the group keys drop the records with a NaN key
        Kept(r) == ~IsNaN(r.COMPLAINT_TYPE) /\ ~IsNaN(r.DEPT)
        rows == SelectSeq(df_open, Kept)
        index == [ k \in 1..Len(rows) |-> RowKey(rows[k]) ]
        columns == [ k \in 1..Len(rows) |-> ColKey(rows[k]) ]
        counted == [ k \in 1..Len(rows) |-> Kept(rows[k]) ]
        pivot == pivot_table(SortStrings(Values(index)),
                             SortStrings(Values(columns)),
                             index, columns, counted)
        totals == add_grand_totals(pivot)
    IN  IF astype_int_fails(totals) THEN Failed("IntCastingNaNError")
        ELSE IF \E j \in 1..Len(totals.columns) :
                  totals.columns[j] = COMPLAINT_TYPE_COL
        THEN Failed("ValueError")
        ELSE Ok("frame", reset_index(totals))

(***************************************************************************)
(* open_close_complaint_pivot                                              *)
(***************************************************************************)
open_close_complaint_pivot(df) ==
  LET RowKey(r) == clean(r.COMPLAINT_TYPE)
      ColKey(r) == << clean(r.DEPT), clean(r.CLOSED_OPEN) >>
      index == [ k \in 1..Len(df) |-> RowKey(df[k]) ]
      columns == [ k \in 1..Len(df) |-> ColKey(df[k]) ]
      \* aggfunc='size' counts every record
      counted == [ k \in 1..Len(df) |-> TRUE ]
      pivot == pivot_table(SortStrings(Values(index)),
                           SortPairs(Values(columns)), index, columns, counted)
      \* the column labels are flattened before the totals are added
      flat == Frame(pivot.index,
                    [ j \in 1..Len(pivot.columns) |->
                        strip_us(join_us(pivot.columns[j])) ],
                    pivot.data)
      with_column == set_column(flat, Grand_Total, sum_axis1(flat))
      totals == set_row(with_column, Grand_Total, sum_axis0(with_column))
  IN  \* .loc[...] = Series aligns the Series with the column labels, which
      \* raises when a label is repeated
      IF HasDuplicates(with_column.columns) THEN Failed("ValueError")
      ELSE IF astype_int_fails(totals) THEN Failed("IntCastingNaNError")
      ELSE Ok("columns", reset_index(totals))

(***************************************************************************)
(* agging_open_pivot_dict and agging_open_close_pivot_dict                 *)
(***************************************************************************)
(* The pivot with observed=True: only the buckets that hold a record are   *)
(* columns.                                                                *)
aging_pivot_observed(df, now) ==
  LET RowKey(r) == clean(r.COMPLAINT_TYPE)
      \* a record without a bucket has a NaN key
      ColKey(r) == IF Age_Bucket(r, now) = 0 THEN NaN ELSE labels[Age_Bucket(r, now)]
      Counted(r) == Age_Bucket(r, now) # 0 /\ ~IsNaN(r.CLOSED_OPEN)
      Seen(b) == \E k \in 1..Len(df) : Age_Bucket(df[k], now) = b
      IsSeen(l) == \E b \in 1..Len(labels) : labels[b] = l /\ Seen(b)
      index == [ k \in 1..Len(df) |-> RowKey(df[k]) ]
      columns == [ k \in 1..Len(df) |-> ColKey(df[k]) ]
      counted == [ k \in 1..Len(df) |-> Counted(df[k]) ]
  IN  pivot_table(SortStrings(Values(index)), SelectSeq(labels, IsSeen),
                  index, columns, counted)

aging_pivot(df, now) ==
  LET RowKey(r) == clean(r.COMPLAINT_TYPE)
      \* a record without a bucket has a NaN key
      ColKey(r) == IF Age_Bucket(r, now) = 0 THEN NaN ELSE labels[Age_Bucket(r, now)]
      \* aggfunc='count' of values='CLOSED/OPEN' counts the non-null cells
      \* of the records that have a bucket
      Counted(r) == Age_Bucket(r, now) # 0 /\ ~IsNaN(r.CLOSED_OPEN)
      index == [ k \in 1..Len(df) |-> RowKey(df[k]) ]
      columns == [ k \in 1..Len(df) |-> ColKey(df[k]) ]
      counted == [ k \in 1..Len(df) |-> Counted(df[k]) ]
  IN  \* observed=False: every category is a column as soon as there is a
      \* row; a frame without rows has no columns at all
      pivot_table(SortStrings(Values(index)),
                  IF Len(df) = 0 THEN << >> ELSE labels,
                  index, columns, counted)

aging_report(df, now) ==
  IF to_datetime_fails(df) THEN Failed("ParseError")
  ELSE LET pivot == aging_pivot(df, now)
       IN  \* pivot_data[labels]
           IF \E b \in 1..Len(labels) :
                \A j \in 1..Len(pivot.columns) : pivot.columns[j] # labels[b]
           THEN Failed("KeyError")
           ELSE IF astype_int_fails(add_grand_totals(pivot))
           THEN Failed("IntCastingNaNError")
           ELSE Ok("records", to_dict(reset_index(add_grand_totals(pivot))))

agging_open_pivot_dict(old_df, now) ==
  IF str_accessor_fails(old_df) THEN Failed("AttributeError")
  ELSE aging_report(SelectSeq(old_df, IsOpen), now)

agging_open_close_pivot_dict(old_df, now) == aging_report(old_df, now)

(***************************************************************************)
(* generate_all_agging_complaint_report                                    *)
(***************************************************************************)
generate_all_agging_complaint_report(df, now) ==
  IF to_datetime_fails(df) THEN Failed("ParseError")
  ELSE
    LET RowKey(r) == clean(r.COMPLAINT_TYPE)
        Dept(r) == clean(r.DEPT)
        Status(r) == clean(r.CLOSED_OPEN)
        \* a record without a bucket has a NaN key
        ColKey(r) == << IF Age_Bucket(r, now) = 0 THEN NaN
                        ELSE labels[Age_Bucket(r, now)],
                        Dept(r), Status(r) >>
        \* aggfunc='count' of values='SL.NO' counts the non-null serial
        \* numbers of the records that have a bucket
        Counted(r) == Age_Bucket(r, now) # 0 /\ r.SL_NO.kind = "num"
        index == [ k \in 1..Len(df) |-> RowKey(df[k]) ]
        columns == [ k \in 1..Len(df) |-> ColKey(df[k]) ]
        counted == [ k \in 1..Len(df) |-> Counted(df[k]) ]
        depts == SortStrings(Values([ k \in 1..Len(df) |-> Dept(df[k]) ]))
        stats == SortStrings(Values([ k \in 1..Len(df) |-> Status(df[k]) ]))
        nd == Len(depts)
        ns == Len(stats)
        \* observed=False: the columns are the product of the six
        \* categories with the departments and the statuses of the table
        cols == [ n \in 1..(Len(labels) * nd * ns) |->
                    << labels[((n - 1) \div (nd * ns)) + 1],
                       depts[(((n - 1) \div ns) % nd) + 1],
                       stats[((n - 1) % ns) + 1] >> ]
        pivot == pivot_table(SortStrings(Values(index)), cols,
                             index, columns, counted)
        with_column == set_column_multi(pivot, Grand_Total,
                                        << Grand_Total, << >>, << >> >>,
                                        sum_axis1(pivot))
        totals == set_row(with_column, Grand_Total, sum_axis0(with_column))
    IN  \* no reset_index(): the records do not hold the index
        Ok("records", to_dict(drop_index(totals)))

(***************************************************************************)
(* open_close_complaint_report                                             *)
(***************************************************************************)
open_close_complaint_report(df) ==
  LET RowKey(r) == clean(r.COMPLAINT_TYPE)
      ColKey(r) == << r.DEPT, r.CLOSED_OPEN >>
      \* DEPT and CLOSED/OPEN are grouped as read: a NaN key drops the record
      Kept(r) == ~IsNaN(r.DEPT) /\ ~IsNaN(r.CLOSED_OPEN)
      rows == SelectSeq(df, Kept)
      index == [ k \in 1..Len(rows) |-> RowKey(rows[k]) ]
      columns == [ k \in 1..Len(rows) |-> ColKey(rows[k]) ]
      counted == [ k \in 1..Len(rows) |-> Kept(rows[k]) ]
      pivot == pivot_table(SortStrings(Values(index)),
                           SortPairs(Values(columns)), index, columns, counted)
      \* the totals are added on the two-level labels, then the labels are
      \* flattened
      with_column == set_column_multi(pivot, Grand_Total,
                                      << Grand_Total, << >> >>, sum_axis1(pivot))
      totals == set_row(with_column, Grand_Total, sum_axis0(with_column))
      flat == Frame(totals.index,
                    [ j \in 1..Len(totals.columns) |->
                        strip_us(join_us(totals.columns[j])) ],
                    totals.data)
  IN  IF astype_int_fails(totals) THEN Failed("IntCastingNaNError")
      ELSE IF \E j \in 1..Len(flat.columns) : flat.columns[j] = COMPLAINT_TYPE_COL
      THEN Failed("ValueError")
      ELSE Ok("records", to_dict(reset_index(flat)))

(***************************************************************************)
(* The columns of the spreadsheet and what each report reads of them.      *)
(***************************************************************************)
Col_SL_NO == "SL.NO"
Col_COMPLAINT_TYPE == "COMPLAINT TYPE"
Col_DEPT == "DEPT"
Col_CLOSED_OPEN == "CLOSED/OPEN"
Col_DATE == "DATE"

AllColumns == { Col_SL_NO, Col_COMPLAINT_TYPE, Col_DEPT, Col_CLOSED_OPEN, Col_DATE }

(* What each report function does with the loaded frame before and in its  *)
(* pivot, in the order of its statements: the column it reads, or the      *)
(* error the values read so far can raise there.                           *)
column_accesses ==
  [ open_complaint_pivot |->
      << Col_CLOSED_OPEN, "AttributeError", Col_COMPLAINT_TYPE, Col_DEPT >>,
    open_close_complaint_pivot |->
      << Col_COMPLAINT_TYPE, Col_DEPT, Col_CLOSED_OPEN >>,
    agging_open_pivot_dict |->
      << Col_CLOSED_OPEN, "AttributeError", Col_DATE, "ParseError",
         Col_COMPLAINT_TYPE >>,
    agging_open_close_pivot_dict |->
      << Col_DATE, "ParseError", Col_COMPLAINT_TYPE, Col_CLOSED_OPEN >>,
    generate_all_agging_complaint_report |->
      << Col_DATE, "ParseError", Col_COMPLAINT_TYPE, Col_DEPT, Col_CLOSED_OPEN,
         Col_SL_NO >>,
    open_close_complaint_report |->
      << Col_COMPLAINT_TYPE, Col_DEPT, Col_CLOSED_OPEN >> ]

(* The report of the rows of a frame that has every column. *)
report_of_rows(name, rows, now) ==
  CASE name = "open_complaint_pivot" -> open_complaint_pivot(rows)
    [] name = "open_close_complaint_pivot" -> open_close_complaint_pivot(rows)
    [] name = "agging_open_pivot_dict" -> agging_open_pivot_dict(rows, now)
    [] name = "agging_open_close_pivot_dict" ->
         agging_open_close_pivot_dict(rows, now)
    [] name = "generate_all_agging_complaint_report" ->
         generate_all_agging_complaint_report(rows, now)
    [] name = "open_close_complaint_report" -> open_close_complaint_report(rows)

(* Statements that go on without a column that is not there. *)
run_statements_tolerant(accesses, frame_columns, outcome) == outcome

(* df[column] raises KeyError when the frame has no such column; the       *)
(* statements before it have run, those after it have not.                 *)
RECURSIVE run_statements(_, _, _)
run_statements(accesses, frame_columns, outcome) ==
  IF accesses = << >> THEN outcome
  ELSE IF Head(accesses) \in AllColumns
  THEN IF Head(accesses) \in frame_columns
       THEN run_statements(Tail(accesses), frame_columns, outcome)
       ELSE Failed("KeyError")
  ELSE IF outcome.error = Head(accesses)
  THEN outcome
  ELSE run_statements(Tail(accesses), frame_columns, outcome)

(* A report function applied to the frame that pd.read_excel returned. *)
report(name, df, now) ==
  run_statements(column_accesses[name], df.columns,
                 report_of_rows(name, df.rows, now))

(* The spreadsheet stored at dataset_path, as pd.read_excel returns it. *)
read_excel == [columns |-> header, rows |-> dataset]

(***************************************************************************)
(* The spreadsheets of the model.                                          *)
(***************************************************************************)
Record(sl, type, dept, status, date) ==
  [SL_NO |-> sl, COMPLAINT_TYPE |-> type, DEPT |-> dept,
   CLOSED_OPEN |-> status, DATE |-> date]

Leak == << "L","e","a","k" >>
leak_padded == << " ","l","e","a","k"," " >>
Road == << "R","o","a","d" >>
Water == << "W","a","t","e","r" >>
WATER_padded == << "W","A","T","E","R"," " >>
Open == << "O","p","e","n" >>
OPEN_padded == << " ","O","P","E","N"," " >>
Closed == << "C","l","o","s","e","d" >>

Types == { Leak, leak_padded, Road, Grand_Total, NaN }
Depts == { Water, WATER_padded, Grand_Total, NaN }

(* Filed 5 days before the reference day, which is day 0. *)
Recent == Date(-5)

Records ==
  \* every complaint type, every department
  { Record(Num(1), t, Water, Open, Recent) : t \in Types }
  \cup { Record(Num(1), Leak, d, Open, Recent) : d \in Depts }
  \cup { Record(Num(1), leak_padded, WATER_padded, Open, Recent),
         Record(Num(1), Road, Grand_Total, Open, Recent),
         Record(Num(1), NaN, NaN, Open, Recent) }
  \* the statuses
  \cup { Record(Num(1), Leak, Water, s, Recent) : s \in { OPEN_padded, Closed, NaN } }
  \* the filed dates: older, in the future, blank, no date
  \cup { Record(Num(1), Leak, Water, Open, d) :
           d \in { Date(-20), Date(1), BlankDate, TextDate } }
  \cup { Record(Num(1), Leak, Water, Closed, d) : d \in { Date(-20), TextDate } }
  \* a blank serial number
  \cup { Record(BlankNum, Leak, Water, Open, Recent) }

(* One record of every age from 0 to MaxAge days. *)
AgedTables == { << Record(Num(1), Leak, Water, Open, Date(-a)) >> : a \in 0..MaxAge }

Tables == UNION { [ 1..n -> Records ] : n \in 0..MaxRecords } \cup AgedTables

(* Spreadsheets that lack one column, or all of them, or none.  (The cells *)
(* of a column that is not there are never read.)                          *)
PartialTables ==
  { << >>,
    << Record(Num(1), Leak, Water, Open, Recent) >>,
    << Record(Num(1), Leak, Water, Closed, Recent) >>,
    << Record(Num(1), Leak, Water, NaN, TextDate) >> }

PartialColumns ==
  { AllColumns \ { c } : c \in AllColumns } \cup { {}, AllColumns }

Operations ==
  { "open_complaint_pivot", "open_close_complaint_pivot",
    "agging_open_pivot_dict", "agging_open_close_pivot_dict",
    "generate_all_agging_complaint_report", "open_close_complaint_report" }

(***************************************************************************)
(* The requests of the FastAPI service.  A request is idle, or it has      *)
(* passed the check of the dataset file ("read" comes next), or it holds   *)
(* the frame it read ("compute" comes next), or its response is made       *)
(* ("done").                                                               *)
(***************************************************************************)
Requests == { "first", "second" }

Endpoints ==
  { "open_complaint_pivot", "open_close_complaint_pivot",
    "agging_open_pivot_dict", "agging_open_close_pivot_dict",
    "open_close_complaint_report" }

NoFrame == [columns |-> {}, rows |-> << >>]
NoResponse ==
  [status_code |-> 0, error |-> "", health |-> "", dataset_available |-> FALSE,
   content |-> << >>]

Idle ==
  [pc |-> "idle", endpoint |-> "none", seen |-> NoFrame, df |-> NoFrame,
   now |-> 0, response |-> NoResponse]

(***************************************************************************)
(* The directory data/raw of the dashboard (app.py).  A name of the        *)
(* directory is free, a subdirectory, or a file with a content.  upload is *)
(* the run of the dashboard script over the uploaded file: "idle" before   *)
(* a run, "list" at os.listdir, "remove" in the loop over the listed       *)
(* names and at the save after it, "done" when st.success or st.error was  *)
(* shown.  upload.before is the directory as the run found it and          *)
(* upload.left the directory the run before it left; both are kept for the *)
(* properties only.                                                        *)
(***************************************************************************)
FileNames == { "complaints.xlsx", "notes.csv" }
Contents == { "march", "april" }
Truncated == "truncated"

NoEntry == [kind |-> "none", content |-> ""]
Directory == [kind |-> "dir", content |-> ""]
File(content) == [kind |-> "file", content |-> content]

EmptyDir == [ n \in FileNames |-> NoEntry ]

(* uploaded_file is None *)
NoFile == [name |-> "", content |-> ""]

NoUpload ==
  [pc |-> "idle", uploaded_file |-> NoFile, listing |-> {}, logged |-> {},
   shown |-> "", before |-> EmptyDir, left |-> EmptyDir, rerun |-> FALSE]

(***************************************************************************)
(* The launcher (run.py).  A child process is not started ("none"),        *)
(* running, exited (by itself or on terminate) or killed; calls is the     *)
(* sequence of terminate and kill calls made on its Popen object.          *)
(* launcher.pc is the position of the main thread in run_servers and       *)
(* wait_for_api; launcher.stop is the activation of signal_handler, which  *)
(* runs in the main thread, either called by it or on a signal between two *)
(* of its steps (from is then the position it interrupted).  The test of   *)
(* shutdown_event at line 77 and the set at line 80 are one step.          *)
(***************************************************************************)
Servers == << "FastAPI", "Flask", "Streamlit" >>
max_attempts == 30
MaxSignals == 2

NoChild == [state |-> "none", calls |-> << >>]
NoStop == [active |-> FALSE, k |-> 0, phase |-> "", from |-> ""]

launcher_not_run ==
  /\ processes = << >>
  /\ shutdown_event = FALSE
  /\ children = [ c \in { Servers[k] : k \in 1..Len(Servers) } |-> NoChild ]
  /\ launcher = [pc |-> "start", next |-> 1, i |-> 0, api_ready |-> "none",
                 registered |-> FALSE, signals |-> 0, stop |-> NoStop]

(***************************************************************************)
(* The cached fetchers of the dashboard (streamlit_cache_data.py).  None   *)
(* is the empty set and a value that is not None a singleton.  What        *)
(* fastapi_api_request_url does is an exception, None, or a response of    *)
(* the requests library with a status code and a body.                     *)
(***************************************************************************)
None == {}
Some(x) == { x }

Fetchers ==
  { "fetch_open_complaint_pivot", "fetch_open_close_complaint_pivot",
    "fetch_agging_open_pivot", "fetch_agging_open_close_pivot" }

(* What a call of fastapi_api_request_url does. *)
Raises(name) == [kind |-> "raises", status_code |-> 0, text |-> name]
ReturnsNone == [kind |-> "none", status_code |-> 0, text |-> ""]
Response(status_code, text) ==
  [kind |-> "response", status_code |-> status_code, text |-> text]
NoAnswer == [kind |-> "nothing", status_code |-> 0, text |-> ""]

(* What a fetcher returns: table, error, status. *)
Returned(table, error, status) ==
  [table |-> table, error |-> error, status |-> status]
NoValue == Returned(None, None, None)

NoEntryCached == [filled |-> FALSE, value |-> NoValue]
NotFetched ==
  [fetcher |-> "none", hit |-> FALSE, value |-> NoValue, answer |-> NoAnswer]

fetchers_not_called ==
  /\ api = NoAnswer
  /\ cache = [ f \in Fetchers |-> NoEntryCached ]
  /\ fetched = NotFetched

(***************************************************************************)
(* The state machine: a stored spreadsheet, and calls of the six reports,  *)
(* each of which reads the spreadsheet and the clock and returns a report  *)
(* to its caller.                                                          *)
(***************************************************************************)
Init ==
  /\ dataset \in Tables
  /\ header = AllColumns
  /\ exists = TRUE
  /\ today = 0
  /\ op = "none"
  /\ result = NoResult
  /\ requests = [ r \in Requests |-> Idle ]
  /\ raw_dir = EmptyDir
  /\ upload = NoUpload
  /\ launcher_not_run
  /\ fetchers_not_called

call_open_complaint_pivot ==
  /\ op = "none"
  /\ op' = "open_complaint_pivot"
  /\ result' = report("open_complaint_pivot", read_excel, today)
  /\ UNCHANGED << dataset, header, exists, today, requests, dashboard_vars,
               launcher_vars, fetcher_vars >>

call_open_close_complaint_pivot ==
  /\ op = "none"
  /\ op' = "open_close_complaint_pivot"
  /\ result' = report("open_close_complaint_pivot", read_excel, today)
  /\ UNCHANGED << dataset, header, exists, today, requests, dashboard_vars,
               launcher_vars, fetcher_vars >>

call_agging_open_pivot_dict ==
  /\ op = "none"
  /\ op' = "agging_open_pivot_dict"
  /\ result' = report("agging_open_pivot_dict", read_excel, today)
  /\ UNCHANGED << dataset, header, exists, today, requests, dashboard_vars,
               launcher_vars, fetcher_vars >>

call_agging_open_close_pivot_dict ==
  /\ op = "none"
  /\ op' = "agging_open_close_pivot_dict"
  /\ result' = report("agging_open_close_pivot_dict", read_excel, today)
  /\ UNCHANGED << dataset, header, exists, today, requests, dashboard_vars,
               launcher_vars, fetcher_vars >>

call_generate_all_agging_complaint_report ==
  /\ op = "none"
  /\ op' = "generate_all_agging_complaint_report"
  /\ result' = report("generate_all_agging_complaint_report", read_excel, today)
  /\ UNCHANGED << dataset, header, exists, today, requests, dashboard_vars,
               launcher_vars, fetcher_vars >>

call_open_close_complaint_report ==
  /\ op = "none"
  /\ op' = "open_close_complaint_report"
  /\ result' = report("open_close_complaint_report", read_excel, today)
  /\ UNCHANGED << dataset, header, exists, today, requests, dashboard_vars,
               launcher_vars, fetcher_vars >>

(* The caller is done with the report: nothing of it is kept. *)
discard_report ==
  /\ op # "none"
  /\ op' = "none"
  /\ result' = NoResult
  /\ UNCHANGED << dataset, header, exists, today, requests, dashboard_vars,
               launcher_vars, fetcher_vars >>

Next ==
  \/ discard_report
  \/ call_open_complaint_pivot
  \/ call_open_close_complaint_pivot
  \/ call_agging_open_pivot_dict
  \/ call_agging_open_close_pivot_dict
  \/ call_generate_all_agging_complaint_report
  \/ call_open_close_complaint_report

Spec == Init /\ [][Next]_vars

(* The same calls on spreadsheets that may lack columns. *)
InitSchema ==
  /\ dataset \in PartialTables
  /\ header \in PartialColumns
  /\ exists = TRUE
  /\ today = 0
  /\ op = "none"
  /\ result = NoResult
  /\ requests = [ r \in Requests |-> Idle ]
  /\ raw_dir = EmptyDir
  /\ upload = NoUpload
  /\ launcher_not_run
  /\ fetchers_not_called

SchemaSpec == InitSchema /\ [][Next]_vars

(* The same calls on spreadsheets whose departments and statuses bear     *)
(* underscores or the two halves of Grand_Total.                           *)
_Water == << "_","W","a","t","e","r" >>
Grand == << "G","r","a","n","d" >>
Total == << "T","o","t","a","l" >>

UnderscoreRecords ==
  { Record(Num(1), t, ds[1], ds[2], Recent) :
      t \in { Leak, Road },
      ds \in { << Water, Open >>, << _Water, Open >>,
               << Water, Closed >>, << Grand, Total >> } }

UnderscoreTables == UNION { [ 1..n -> UnderscoreRecords ] : n \in 0..MaxRecords }

InitFlatten ==
  /\ dataset \in UnderscoreTables
  /\ header = AllColumns
  /\ exists = TRUE
  /\ today = 0
  /\ op = "none"
  /\ result = NoResult
  /\ requests = [ r \in Requests |-> Idle ]
  /\ raw_dir = EmptyDir
  /\ upload = NoUpload
  /\ launcher_not_run
  /\ fetchers_not_called

FlattenSpec == InitFlatten /\ [][Next]_vars

(***************************************************************************)
(* The FastAPI service: five report endpoints and /healthcheck, served     *)
(* from the file at dataset_path, which the upload of the dashboard        *)
(* removes and writes.                                                     *)
(***************************************************************************)
MaxDays == 1

(* raise HTTPException(status_code, detail), and any other exception *)
HTTPException(status_code, detail) ==
  [kind |-> "HTTPException", status_code |-> status_code, detail |-> detail]
Exception(name) == [kind |-> "Exception", status_code |-> 0, detail |-> name]

(* Handlers whose only clause is except Exception. *)
except_clauses_without_reraise(exc) ==
  HTTPException(500, "Internal server error")

(* except HTTPException: raise / except Exception as e: raise             *)
(* HTTPException(status_code=500, detail="Internal server error")         *)
except_clauses(exc) ==
  IF exc.kind = "HTTPException" THEN exc
  ELSE HTTPException(500, "Internal server error")

(* The JSON response made of an HTTPException. *)
http_exception_handler(exc) ==
  [status_code |-> exc.status_code, error |-> exc.detail, health |-> "",
   dataset_available |-> FALSE, content |-> << >>]

(* JSONResponse(content=response_dict) *)
JSONResponse(content) ==
  [status_code |-> 200, error |-> "", health |-> "",
   dataset_available |-> FALSE, content |-> content]

(* The columns each report function assigns in the frame it loaded        *)
(* (agging_open_pivot_dict and agging_open_close_pivot_dict assign in a   *)
(* copy).                                                                  *)
assigned_columns ==
  [ open_complaint_pivot |-> { Col_COMPLAINT_TYPE },
    open_close_complaint_pivot |->
      { Col_COMPLAINT_TYPE, Col_DEPT, Col_CLOSED_OPEN },
    agging_open_pivot_dict |-> {},
    agging_open_close_pivot_dict |-> {},
    generate_all_agging_complaint_report |->
      { Col_COMPLAINT_TYPE, Col_DEPT, Col_CLOSED_OPEN },
    open_close_complaint_report |-> { Col_COMPLAINT_TYPE } ]

(* The loaded frame after the report function ran on it: the assigned     *)
(* columns hold the cleaned values.  (A frame that an error left half     *)
(* assigned is not told apart from the frame as loaded.)                   *)
frame_after(name, df, outcome) ==
  IF outcome.error \in { "KeyError", "AttributeError", "ParseError" } THEN df
  ELSE [ df EXCEPT !.rows =
           [ k \in 1..Len(df.rows) |->
               [ df.rows[k] EXCEPT
                   !.COMPLAINT_TYPE =
                     IF Col_COMPLAINT_TYPE \in assigned_columns[name]
                     THEN clean(@) ELSE @,
                   !.DEPT =
                     IF Col_DEPT \in assigned_columns[name]
                     THEN clean(@) ELSE @,
                   !.CLOSED_OPEN =
                     IF Col_CLOSED_OPEN \in assigned_columns[name]
                     THEN clean(@) ELSE @ ] ] ]

(* The files the upload can store at dataset_path. *)
ServerFiles ==
  { [columns |-> AllColumns,
     rows |-> << Record(Num(1), leak_padded, Water, Open, Date(-15)),
                 Record(Num(1), Leak, Water, Open, Date(-15)) >>],
    [columns |-> AllColumns,
     rows |-> << Record(Num(1), Road, Water, Closed, Recent) >>],
    [columns |-> AllColumns \ { Col_DATE },
     rows |-> << Record(Num(1), Road, Water, Closed, Recent) >>] }

InitServer ==
  /\ \/ /\ exists = TRUE
        /\ \E f \in ServerFiles : dataset = f.rows /\ header = f.columns
     \/ /\ exists = FALSE
        /\ dataset = << >>
        /\ header = {}
  /\ today = 0
  /\ op = "none"
  /\ result = NoResult
  /\ requests = [ r \in Requests |-> Idle ]
  /\ raw_dir = EmptyDir
  /\ upload = NoUpload
  /\ launcher_not_run
  /\ fetchers_not_called

(* A report handler starts: if not os.path.exists(dataset_path): raise    *)
(* HTTPException(status_code=404, detail="Dataset not found")             *)
check_dataset(r, e) ==
  /\ requests[r].pc = "idle"
  /\ requests' =
       [ requests EXCEPT ![r] =
           IF exists
           THEN [ @ EXCEPT !.pc = "read", !.endpoint = e ]
           ELSE [ @ EXCEPT !.pc = "done", !.endpoint = e,
                   !.response = http_exception_handler(except_clauses(
                                  HTTPException(404, "Dataset not found"))) ] ]
  /\ UNCHANGED << dataset, header, exists, today, op, result, dashboard_vars,
               launcher_vars, fetcher_vars >>

(* A frame that is shared by the requests: the one another request holds  *)
(* is used instead of the file.                                            *)
load_dataset_cached(r) ==
  /\ requests[r].pc = "read"
  /\ requests' =
       [ requests EXCEPT ![r] =
           IF exists
           THEN [ @ EXCEPT !.pc = "compute", !.seen = read_excel,
                   !.df = IF \E q \in Requests \ { r } : requests[q].df # NoFrame
                          THEN requests[CHOOSE q \in Requests \ { r } :
                                          requests[q].df # NoFrame].df
                          ELSE read_excel ]
           ELSE [ @ EXCEPT !.pc = "done",
                   !.response = http_exception_handler(except_clauses(
                                  Exception("FileNotFoundError"))) ] ]
  /\ UNCHANGED << dataset, header, exists, today, op, result, dashboard_vars,
               launcher_vars, fetcher_vars >>

(* The report function starts: df = pd.read_excel(dataset_path), which    *)
(* raises FileNotFoundError if the file was removed since the check.      *)
load_dataset(r) ==
  /\ requests[r].pc = "read"
  /\ requests' =
       [ requests EXCEPT ![r] =
           IF exists
           THEN [ @ EXCEPT !.pc = "compute", !.seen = read_excel,
                   !.df = read_excel ]
           ELSE [ @ EXCEPT !.pc = "done",
                   !.response = http_exception_handler(except_clauses(
                                  Exception("FileNotFoundError"))) ] ]
  /\ UNCHANGED << dataset, header, exists, today, op, result, dashboard_vars,
               launcher_vars, fetcher_vars >>

(* The response of a handler whose report function returned or raised. *)
respond(outcome) ==
  IF outcome.status = "ok" THEN JSONResponse(outcome.table)
  ELSE http_exception_handler(except_clauses(Exception(outcome.error)))

(* A report function that works on the stored spreadsheet itself: the     *)
(* cleaned values are written back to it.                                  *)
compute_report_in_storage(r) ==
  /\ requests[r].pc = "compute"
  /\ LET outcome == report(requests[r].endpoint, requests[r].df, today)
         after == frame_after(requests[r].endpoint, requests[r].df, outcome)
     IN  /\ requests' =
              [ requests EXCEPT ![r] =
                  [ @ EXCEPT !.pc = "done", !.now = today, !.df = after,
                      !.response = respond(outcome) ] ]
         /\ dataset' = IF exists THEN after.rows ELSE dataset
  /\ UNCHANGED << header, exists, today, op, result, dashboard_vars,
               launcher_vars, fetcher_vars >>

(* The rest of the report function, on the frame it loaded, and the       *)
(* handler's return or except clause.                                      *)
compute_report(r) ==
  /\ requests[r].pc = "compute"
  /\ LET outcome == report(requests[r].endpoint, requests[r].df, today)
     IN  requests' =
           [ requests EXCEPT ![r] =
               [ @ EXCEPT !.pc = "done", !.now = today,
                   !.df = frame_after(requests[r].endpoint, requests[r].df,
                                      outcome),
                   !.response = respond(outcome) ] ]
  /\ UNCHANGED << dataset, header, exists, today, op, result, dashboard_vars,
               launcher_vars, fetcher_vars >>

(* A health check that does not look at the file. *)
get_healthcheck_always_healthy(r) ==
  /\ requests[r].pc = "idle"
  /\ requests' =
       [ requests EXCEPT ![r] =
           [ @ EXCEPT !.pc = "done", !.endpoint = "healthcheck",
               !.response = [status_code |-> 200, error |-> "",
                             health |-> "healthy", dataset_available |-> TRUE,
                             content |-> << >>] ] ]
  /\ UNCHANGED << dataset, header, exists, today, op, result, dashboard_vars,
               launcher_vars, fetcher_vars >>

(* GET /healthcheck *)
get_healthcheck(r) ==
  /\ requests[r].pc = "idle"
  /\ LET dataset_exists == exists
     IN  requests' =
           [ requests EXCEPT ![r] =
               [ @ EXCEPT !.pc = "done", !.endpoint = "healthcheck",
                   !.response =
                     [status_code |-> 200, error |-> "",
                      health |-> IF dataset_exists THEN "healthy" ELSE "degraded",
                      dataset_available |-> dataset_exists,
                      content |-> << >>] ] ]
  /\ UNCHANGED << dataset, header, exists, today, op, result, dashboard_vars,
               launcher_vars, fetcher_vars >>

(* The response is sent; the handler keeps nothing. *)
send_response(r) ==
  /\ requests[r].pc = "done"
  /\ requests' = [ requests EXCEPT ![r] = Idle ]
  /\ UNCHANGED << dataset, header, exists, today, op, result, dashboard_vars,
               launcher_vars, fetcher_vars >>

(* The upload removes the files of data/raw ... *)
remove_previous_files ==
  /\ exists
  /\ exists' = FALSE
  /\ dataset' = << >>
  /\ header' = {}
  /\ UNCHANGED << today, op, result, requests, dashboard_vars,
               launcher_vars, fetcher_vars >>

(* ... and saves the uploaded file. *)
save_new_file(f) ==
  /\ ~exists
  /\ exists' = TRUE
  /\ dataset' = f.rows
  /\ header' = f.columns
  /\ UNCHANGED << today, op, result, requests, dashboard_vars,
               launcher_vars, fetcher_vars >>

(* A day passes. *)
next_day ==
  /\ today < MaxDays
  /\ today' = today + 1
  /\ UNCHANGED << dataset, header, exists, op, result, requests, dashboard_vars,
               launcher_vars, fetcher_vars >>

NextServer ==
  \/ \E r \in Requests : \E e \in Endpoints : check_dataset(r, e)
  \/ \E r \in Requests : load_dataset(r)
  \/ \E r \in Requests : compute_report(r)
  \/ \E r \in Requests : get_healthcheck(r)
  \/ \E r \in Requests : send_response(r)
  \/ remove_previous_files
  \/ \E f \in ServerFiles : save_new_file(f)
  \/ next_day

ServerSpec == InitServer /\ [][NextServer]_vars

(***************************************************************************)
(* The dashboard: the script of app.py runs again at every interaction,    *)
(* and while a file is in the uploader every run removes the files of      *)
(* data/raw and saves the uploaded file there.                             *)
(***************************************************************************)
Directories ==
  [ FileNames -> { NoEntry, Directory } \cup { File(c) : c \in Contents } ]
UploadedFiles == [ name : FileNames, content : Contents ]

InitDashboard ==
  /\ dataset = << >>
  /\ header = {}
  /\ exists = FALSE
  /\ today = 0
  /\ op = "none"
  /\ result = NoResult
  /\ requests = [ r \in Requests |-> Idle ]
  /\ raw_dir \in Directories
  /\ upload = NoUpload
  /\ launcher_not_run
  /\ fetchers_not_called

(* uploaded_file = st.file_uploader(...): the user puts a file in the      *)
(* uploader and the script runs.                                           *)
file_uploader(f) ==
  /\ upload.pc \in { "idle", "done" }
  /\ f # upload.uploaded_file
  /\ upload' = [ NoUpload EXCEPT !.pc = "list", !.uploaded_file = f,
                                  !.left = raw_dir ]
  /\ UNCHANGED << raw_dir, service_vars, launcher_vars, fetcher_vars >>

(* Another interaction: the script runs again with the same file in the   *)
(* uploader.                                                               *)
rerun ==
  /\ upload.pc = "done"
  /\ upload' = [ NoUpload EXCEPT !.pc = "list",
                                  !.uploaded_file = upload.uploaded_file,
                                  !.left = raw_dir,
                                  !.rerun = upload.shown = "success"
                                            /\ upload.logged = {} ]
  /\ UNCHANGED << raw_dir, service_vars, launcher_vars, fetcher_vars >>

(* for file in os.listdir(SAVE_DIR) *)
listdir ==
  /\ upload.pc = "list"
  /\ upload' = [ upload EXCEPT !.pc = "remove", !.before = raw_dir,
                    !.listing = { n \in FileNames : raw_dir[n] # NoEntry } ]
  /\ UNCHANGED << raw_dir, service_vars, launcher_vars, fetcher_vars >>

(* os.path.isfile(file_path_to_remove) *)
isfile(dir, n) == dir[n].kind = "file"

(* A loop that removes nothing. *)
os_remove_skipped(dir, n) == dir

(* os.remove(file_path_to_remove) *)
os_remove(dir, n) == [ dir EXCEPT ![n] = NoEntry ]

(* One turn of the loop: a file is removed, or os.remove raises and the    *)
(* error is logged, or the name is not a file and is left alone.           *)
remove_listed_file(n) ==
  /\ upload.pc = "remove"
  /\ n \in upload.listing
  /\ \/ /\ isfile(raw_dir, n)
        /\ raw_dir' = os_remove(raw_dir, n)
        /\ upload' = [ upload EXCEPT !.listing = @ \ { n } ]
     \/ /\ isfile(raw_dir, n)
        /\ raw_dir' = raw_dir
        /\ upload' = [ upload EXCEPT !.listing = @ \ { n },
                                      !.logged = @ \cup { n } ]
     \/ /\ ~isfile(raw_dir, n)
        /\ raw_dir' = raw_dir
        /\ upload' = [ upload EXCEPT !.listing = @ \ { n } ]
  /\ UNCHANGED << service_vars, launcher_vars, fetcher_vars >>

(* with open(file_path, "wb") as f: f.write(uploaded_file.getbuffer()),    *)
(* then st.success; open raises when the name is a directory and may raise *)
(* otherwise, write may raise after open has emptied the file; the outer   *)
(* except clause shows st.error.                                           *)
save_uploaded_file ==
  /\ upload.pc = "remove"
  /\ upload.listing = {}
  /\ LET file_path == upload.uploaded_file.name
     IN  \/ /\ raw_dir[file_path] # Directory
            /\ raw_dir' = [ raw_dir EXCEPT ![file_path] =
                              File(upload.uploaded_file.content) ]
            /\ upload' = [ upload EXCEPT !.pc = "done", !.shown = "success" ]
         \/ /\ raw_dir[file_path] # Directory
            /\ raw_dir' = [ raw_dir EXCEPT ![file_path] = File(Truncated) ]
            /\ upload' = [ upload EXCEPT !.pc = "done", !.shown = "error" ]
         \/ /\ raw_dir' = raw_dir
            /\ upload' = [ upload EXCEPT !.pc = "done", !.shown = "error" ]
  /\ UNCHANGED << service_vars, launcher_vars, fetcher_vars >>

NextDashboard ==
  \/ \E f \in UploadedFiles : file_uploader(f)
  \/ rerun
  \/ listdir
  \/ \E n \in FileNames : remove_listed_file(n)
  \/ save_uploaded_file

DashboardSpec == InitDashboard /\ [][NextDashboard]_vars

(***************************************************************************)
(* The launcher: run_servers starts FastAPI, waits for its health check,   *)
(* starts Flask and Streamlit and watches the three; signal_handler stops  *)
(* the recorded processes and exits.                                       *)
(***************************************************************************)
ServerNames == { Servers[k] : k \in 1..Len(Servers) }

InitLauncher ==
  /\ dataset = << >>
  /\ header = {}
  /\ exists = FALSE
  /\ today = 0
  /\ op = "none"
  /\ result = NoResult
  /\ requests = [ r \in Requests |-> Idle ]
  /\ raw_dir = EmptyDir
  /\ upload = NoUpload
  /\ launcher_not_run
  /\ fetchers_not_called

(* The main thread runs its own code: signal_handler is not active. *)
at(pc) == ~launcher.stop.active /\ launcher.pc = pc

(* The files and the ports are checked: sys.exit(1) when one fails. *)
check_files_and_ports ==
  /\ at("start")
  /\ \/ launcher' = [ launcher EXCEPT !.pc = "register" ]
     \/ launcher' = [ launcher EXCEPT !.pc = "exited" ]
  /\ UNCHANGED << processes, shutdown_event, children,
                  service_vars, dashboard_vars,
                  fetcher_vars >>

(* signal.signal(signal.SIGINT, signal_handler), and SIGTERM *)
register_handlers ==
  /\ at("register")
  /\ launcher' = [ launcher EXCEPT !.pc = "spawn", !.registered = TRUE ]
  /\ UNCHANGED << processes, shutdown_event, children,
                  service_vars, dashboard_vars,
                  fetcher_vars >>

(* subprocess.Popen(...) starts the child, or raises and the except       *)
(* clause of run_servers calls signal_handler.                             *)
Popen(c) ==
  /\ at("spawn")
  /\ Servers[launcher.next] = c
  /\ \/ /\ children' = [ children EXCEPT ![c].state = "running" ]
        /\ launcher' = [ launcher EXCEPT !.pc = "record" ]
     \/ /\ children' = children
        /\ launcher' = [ launcher EXCEPT !.pc = "call_handler" ]
  /\ UNCHANGED << processes, shutdown_event, service_vars, dashboard_vars,
                  fetcher_vars >>

(* processes[name] = <the Popen object>, the monitor thread, the sleep *)
record(c) ==
  /\ at("record")
  /\ Servers[launcher.next] = c
  /\ processes' = Append(processes, c)
  /\ launcher' =
       IF c = "FastAPI" THEN [ launcher EXCEPT !.pc = "wait" ]
       ELSE IF c = "Flask" THEN [ launcher EXCEPT !.pc = "spawn", !.next = 3 ]
       ELSE [ launcher EXCEPT !.pc = "monitor" ]
  /\ UNCHANGED << shutdown_event, children, service_vars, dashboard_vars,
                  fetcher_vars >>

(* A run_servers that does not test what wait_for_api returned. *)
after_wait_for_api_unchecked(ready) == "spawn"

(* if not wait_for_api(): signal_handler(None, None); return *)
after_wait_for_api(ready) == IF ready THEN "spawn" ELSE "call_handler"

wait_for_api_returns(ready) ==
  [ launcher EXCEPT !.pc = after_wait_for_api(ready),
                    !.next = 2,
                    !.api_ready = IF ready THEN "true" ELSE "false" ]

(* for i in range(max_attempts): if shutdown_event.is_set(): return False *)
wait_attempt ==
  /\ at("wait")
  /\ launcher' =
       IF shutdown_event \/ ~(launcher.i < max_attempts)
       THEN wait_for_api_returns(FALSE)
       ELSE [ launcher EXCEPT !.pc = "get" ]
  /\ UNCHANGED << processes, shutdown_event, children,
                  service_vars, dashboard_vars,
                  fetcher_vars >>

(* requests.get(url, timeout=2) inside try: 200 returns True, another      *)
(* status or an exception goes on to the sleep.                            *)
health_check ==
  /\ at("get")
  /\ \/ /\ children["FastAPI"].state = "running"
        /\ launcher' = wait_for_api_returns(TRUE)
     \/ launcher' = [ launcher EXCEPT !.pc = "sleep" ]
  /\ UNCHANGED << processes, shutdown_event, children,
                  service_vars, dashboard_vars,
                  fetcher_vars >>

(* the attempt is printed, time.sleep(1), next i *)
attempt_sleep ==
  /\ at("sleep")
  /\ launcher' = [ launcher EXCEPT !.pc = "wait", !.i = @ + 1 ]
  /\ UNCHANGED << processes, shutdown_event, children,
                  service_vars, dashboard_vars,
                  fetcher_vars >>

(* signal_handler is entered with shutdown_event clear: it sets it. *)
enter_signal_handler(from) ==
  [active |-> TRUE, k |-> 1, phase |-> "terminate", from |-> from]

(* A give-up that returns without stopping anything. *)
return_without_stopping ==
  /\ at("call_handler")
  /\ launcher' = [ launcher EXCEPT !.pc = "exited" ]
  /\ UNCHANGED << processes, shutdown_event, children,
                  service_vars, dashboard_vars,
                  fetcher_vars >>

(* signal_handler(None, None) called by run_servers: it returns at once    *)
(* when shutdown_event is set, and run_servers returns.                    *)
call_signal_handler ==
  /\ at("call_handler")
  /\ IF shutdown_event
     THEN /\ launcher' = [ launcher EXCEPT !.pc = "exited" ]
          /\ shutdown_event' = shutdown_event
     ELSE /\ launcher' = [ launcher EXCEPT !.stop = enter_signal_handler("call") ]
          /\ shutdown_event' = TRUE
  /\ UNCHANGED << processes, children, service_vars, dashboard_vars,
                  fetcher_vars >>

(* The loop over processes.items() finds process.poll() is not None. *)
monitor ==
  /\ at("monitor")
  /\ \E k \in 1..Len(processes) : children[processes[k]].state # "running"
  /\ launcher' = [ launcher EXCEPT !.pc = "call_handler" ]
  /\ UNCHANGED << processes, shutdown_event, children,
                  service_vars, dashboard_vars,
                  fetcher_vars >>

(* process.terminate() *)
terminate(child) == [ child EXCEPT !.calls = Append(@, "terminate") ]

(* A handler whose except clause does nothing. *)
kill_skipped(child) == child

(* process.kill() *)
kill(child) == [ child EXCEPT !.state = "killed", !.calls = Append(@, "kill") ]

stop_terminate ==
  /\ launcher.stop.active
  /\ launcher.stop.phase = "terminate"
  /\ launcher.stop.k <= Len(processes)
  /\ children' = [ children EXCEPT ![processes[launcher.stop.k]] = terminate(@) ]
  /\ launcher' = [ launcher EXCEPT !.stop.phase = "wait" ]
  /\ UNCHANGED << processes, shutdown_event, service_vars, dashboard_vars,
                  fetcher_vars >>

(* process.wait(timeout=3) returns when the child has exited, or raises    *)
(* TimeoutExpired and the except clause kills the child.                   *)
stop_wait ==
  /\ launcher.stop.active
  /\ launcher.stop.phase = "wait"
  /\ LET name == processes[launcher.stop.k]
     IN  \/ /\ children[name].state # "running"
            /\ children' = children
         \/ /\ children[name].state = "running"
            /\ children' = [ children EXCEPT ![name] = kill(@) ]
  /\ launcher' = [ launcher EXCEPT !.stop.phase = "terminate", !.stop.k = @ + 1 ]
  /\ UNCHANGED << processes, shutdown_event, service_vars, dashboard_vars,
                  fetcher_vars >>

(* sys.exit(0): SystemExit ends the launcher, unless the signal came       *)
(* inside the try of wait_for_api, whose bare except clause swallows it.   *)
sys_exit ==
  /\ launcher.stop.active
  /\ launcher.stop.k > Len(processes)
  /\ launcher' =
       IF launcher.stop.from = "get"
       THEN [ launcher EXCEPT !.stop = NoStop, !.pc = "sleep" ]
       ELSE [ launcher EXCEPT !.stop = NoStop, !.pc = "exited" ]
  /\ UNCHANGED << processes, shutdown_event, children,
                  service_vars, dashboard_vars,
                  fetcher_vars >>

(* SIGINT or SIGTERM is delivered: the handler runs in the main thread,    *)
(* between two of its steps.                                               *)
signal ==
  /\ launcher.registered
  /\ launcher.pc # "exited"
  /\ launcher.signals < MaxSignals
  /\ IF shutdown_event
     THEN /\ launcher' = [ launcher EXCEPT !.signals = @ + 1 ]
          /\ shutdown_event' = shutdown_event
     ELSE /\ launcher' = [ launcher EXCEPT !.signals = @ + 1,
                              !.stop = enter_signal_handler(launcher.pc) ]
          /\ shutdown_event' = TRUE
  /\ UNCHANGED << processes, children, service_vars, dashboard_vars,
                  fetcher_vars >>

(* A child process exits, by itself or on the terminate it was sent. *)
child_exit(c) ==
  /\ children[c].state = "running"
  /\ children' = [ children EXCEPT ![c].state = "exited" ]
  /\ UNCHANGED << processes, shutdown_event, launcher,
                  service_vars, dashboard_vars,
                  fetcher_vars >>

LauncherStep ==
  \/ check_files_and_ports
  \/ register_handlers
  \/ \E c \in ServerNames : Popen(c)
  \/ \E c \in ServerNames : record(c)
  \/ wait_attempt
  \/ health_check
  \/ attempt_sleep
  \/ call_signal_handler
  \/ monitor
  \/ stop_terminate
  \/ stop_wait
  \/ sys_exit

NextLauncher ==
  \/ LauncherStep
  \/ signal
  \/ \E c \in ServerNames : child_exit(c)

(* The main thread of the launcher keeps running: none of its steps blocks *)
(* for longer than a timeout.                                              *)
LauncherSpec == InitLauncher /\ [][NextLauncher]_vars /\ WF_vars(LauncherStep)

(***************************************************************************)
(* The dashboard fetchers: the four functions have the same body, and      *)
(* st.cache_data(ttl=300) keeps what a call returned for 300 seconds.      *)
(***************************************************************************)
EmptyBody == "[]"
RecordsBody == "[{COMPLAINT TYPE: Leak, Grand_Total: 1}]"
ErrorBody == "{error: Dataset not found}"
Bodies == { EmptyBody, RecordsBody }
StatusCodes == { 200, 204, 404, 500 }

ApiAnswers ==
  { Raises("ConnectionError"), ReturnsNone } \cup
  { Response(200, b) : b \in Bodies } \cup
  { Response(sc, ErrorBody) : sc \in StatusCodes \ { 200 } }

InitFetchers ==
  /\ dataset = << >>
  /\ header = {}
  /\ exists = FALSE
  /\ today = 0
  /\ op = "none"
  /\ result = NoResult
  /\ requests = [ r \in Requests |-> Idle ]
  /\ raw_dir = EmptyDir
  /\ upload = NoUpload
  /\ launcher_not_run
  /\ api \in ApiAnswers
  /\ cache = [ f \in Fetchers |-> NoEntryCached ]
  /\ fetched = NotFetched

(* response.json(): the parsed body (a list of records), or                *)
(* JSONDecodeError for a body that is not a list                           *)
json(text) ==
  IF text = EmptyBody THEN [ok |-> TRUE, data |-> << >>]
  ELSE IF text = RecordsBody
  THEN [ok |-> TRUE,
        data |-> << << << "COMPLAINT TYPE", "Leak" >>,
                       << "Grand_Total", 1 >> >> >>]
  ELSE [ok |-> FALSE, data |-> << >>]

(* pd.DataFrame(response_data) of a list of records *)
DataFrame(data) ==
  [columns |-> [ k \in 1..Len(data[1]) |-> data[1][k][1] ],
   rows |-> [ r \in 1..Len(data) |->
               [ k \in 1..Len(data[r]) |-> data[r][k][2] ] ]]

(* The truth value of response in "if response": None is false, and a     *)
(* Response of requests is true when its status code is below 400.        *)
truth(response) == response.kind = "response" /\ response.status_code < 400

(* str(CustomException(e, sys)) *)
error_msg(e) == [text |-> "CustomException", of |-> e, status |-> None]

(* The body of a fetcher. *)
fetch(response) ==
  IF response.kind = "raises"
  THEN Returned(None, Some(error_msg(response.text)), None)
  ELSE IF response.kind = "response" /\ response.status_code = 200
  THEN LET response_data == json(response.text)
       IN  IF ~response_data.ok
           THEN Returned(None, Some(error_msg("JSONDecodeError")), None)
           ELSE IF response_data.data # << >>
           THEN Returned(Some(DataFrame(response_data.data)), None,
                         Some(response.status_code))
           ELSE Returned(None,
                         Some([text |-> "No data available", of |-> "",
                               status |-> None]),
                         Some(response.status_code))
  ELSE LET status == IF truth(response) THEN Some(response.status_code)
                     ELSE None
       IN  Returned(None,
                    Some([text |-> "API error: ", of |-> "", status |-> status]),
                    status)

(* A fetcher is called: st.cache_data returns the entry it holds, or runs  *)
(* the body and keeps what it returned.                                    *)
call_fetcher(f) ==
  /\ IF cache[f].filled
     THEN /\ fetched' = [fetcher |-> f, hit |-> TRUE,
                         value |-> cache[f].value, answer |-> NoAnswer]
          /\ cache' = cache
     ELSE /\ fetched' = [fetcher |-> f, hit |-> FALSE,
                         value |-> fetch(api), answer |-> api]
          /\ cache' = [ cache EXCEPT ![f] =
                          [filled |-> TRUE, value |-> fetch(api)] ]
  /\ UNCHANGED << api, service_vars, dashboard_vars, launcher_vars >>

(* 300 seconds have passed since the entry of f was made. *)
ttl_expires(f) ==
  /\ cache[f].filled
  /\ cache' = [ cache EXCEPT ![f] = NoEntryCached ]
  /\ UNCHANGED << api, fetched, service_vars, dashboard_vars, launcher_vars >>

(* The API starts to behave differently. *)
api_changes(a) ==
  /\ a # api
  /\ api' = a
  /\ UNCHANGED << cache, fetched, service_vars, dashboard_vars, launcher_vars >>

NextFetchers ==
  \/ \E f \in Fetchers : call_fetcher(f)
  \/ \E f \in Fetchers : ttl_expires(f)
  \/ \E a \in ApiAnswers : api_changes(a)

FetcherSpec == InitFetchers /\ [][NextFetchers]_vars

(***************************************************************************)
(* Reading a returned report.                                              *)
(***************************************************************************)
AllAging == "generate_all_agging_complaint_report"

IsOk == result.status = "ok"
Rows == result.table

HasField(row, name) == \E k \in 1..Len(row) : row[k][1] = name
Field(row, name) == row[CHOOSE k \in 1..Len(row) : row[k][1] = name][2]

(* The label of the totals column, and the fields that hold counts. *)
TotalField == IF op = AllAging THEN << Grand_Total, << >>, << >> >> ELSE Grand_Total

IsDataField(name) ==
  /\ name # TotalField
  /\ (op = AllAging \/ name # COMPLAINT_TYPE_COL)

(* The Grand_Total row: the one named so.  Where the records do not hold   *)
(* their name it is the last one, or the place of Grand_Total among the    *)
(* sorted complaint types when the table has a complaint type of that name.*)
CleanType(r) == clean(r.COMPLAINT_TYPE)

CleanTypes == { CleanType(dataset[k]) : k \in 1..Len(dataset) }

TotalRow ==
  IF op = AllAging
  THEN IF Grand_Total \in CleanTypes
       THEN 1 + Cardinality({ t \in CleanTypes : StrLess(t, Grand_Total) })
       ELSE Len(Rows)
  ELSE CHOOSE i \in 1..Len(Rows) : Field(Rows[i], COMPLAINT_TYPE_COL) = Grand_Total

DataRows == (1..Len(Rows)) \ { TotalRow }

DataSum(row) ==
  SumSeq([ k \in 1..Len(row) |-> IF IsDataField(row[k][1]) THEN row[k][2] ELSE 0 ])

ColumnSum(name) ==
  SumSeq([ i \in 1..Len(Rows) |->
             IF i \in DataRows THEN Field(Rows[i], name) ELSE 0 ])

Corner == Field(Rows[TotalRow], TotalField)

Count(P(_)) == Cardinality({ k \in 1..Len(dataset) : P(dataset[k]) })

(***************************************************************************)
(* C1: in every report, the Grand_Total field of each data row is the sum  *)
(* of the row's data fields, the Grand_Total row holds the sum of the data *)
(* rows in each data field, and the cell where the two meet is the sum of  *)
(* the row totals and of the column totals.                                *)
(***************************************************************************)
C1_TotalsAreSums ==
  IsOk =>
    /\ \A i \in 1..Len(Rows) : HasField(Rows[i], TotalField)
    /\ \A i \in DataRows : Field(Rows[i], TotalField) = DataSum(Rows[i])
    /\ \A k \in 1..Len(Rows[TotalRow]) :
         IsDataField(Rows[TotalRow][k][1]) =>
           Rows[TotalRow][k][2] = ColumnSum(Rows[TotalRow][k][1])
    /\ Corner = ColumnSum(TotalField)
    /\ Corner = DataSum(Rows[TotalRow])

(***************************************************************************)
(* C2: the cell at the bottom right is the number of records considered:   *)
(* the Open records in open_complaint_pivot and agging_open_pivot_dict,    *)
(* all records in the other four reports.                                  *)
(***************************************************************************)
OpenOnly == op \in { "open_complaint_pivot", "agging_open_pivot_dict" }

Considered(r) == OpenOnly => IsOpen(r)

C2_CornerCountsRecords ==
  IsOk => HasField(Rows[TotalRow], TotalField) /\ Corner = Count(Considered)

(***************************************************************************)
(* C3: an age of a >= 0 whole days has exactly one label: 0..15 <15Days,   *)
(* 16..30 16-30Days, 31..60 31-60Days, 61..90 61-90Days, 91..180           *)
(* 91-180Days, above 180 >180Days.  The Grand_Total row of an aging report *)
(* holds, under each label, the number of counted records whose age the    *)
(* claim gives that label.                                                 *)
(***************************************************************************)
ClaimedBucket(a) ==
  IF a <= 15 THEN 1
  ELSE IF a <= 30 THEN 2
  ELSE IF a <= 60 THEN 3
  ELSE IF a <= 90 THEN 4
  ELSE IF a <= 180 THEN 5
  ELSE 6

TwoAging == { "agging_open_pivot_dict", "agging_open_close_pivot_dict" }

(* The records an aging report counts when they have a bucket. *)
Countable(r) ==
  /\ Considered(r)
  /\ (op \in TwoAging => ~IsNaN(r.CLOSED_OPEN))
  /\ (op = AllAging => r.SL_NO.kind = "num")

HasAge(r) == r.DATE.kind = "date" /\ today - r.DATE.day >= 0

(* The count of the Grand_Total row under the b-th label. *)
BucketTotal(b) ==
  IF op = AllAging
  THEN SumSeq([ k \in 1..Len(Rows[TotalRow]) |->
                  IF Rows[TotalRow][k][1][1] = labels[b]
                  THEN Rows[TotalRow][k][2] ELSE 0 ])
  ELSE Field(Rows[TotalRow], labels[b])

C3_BucketOfAge ==
  (IsOk /\ op \in TwoAging \cup { AllAging }) =>
    \A b \in 1..Len(labels) :
      LET InBucket(r) ==
            Countable(r) /\ HasAge(r) /\ ClaimedBucket(today - r.DATE.day) = b
      IN  BucketTotal(b) = Count(InBucket)

(* A record aged 180 days is reported under 91-180Days, one aged 181 days  *)
(* would not be.                                                           *)
C3_Witness ==
  /\ IsOk
  /\ op = "agging_open_pivot_dict"
  /\ Len(dataset) = 1
  /\ dataset[1].DATE = Date(-180)
  /\ BucketTotal(5) = 1

(***************************************************************************)
(* C4: an aging report drops no record by bucketing: when it returns, each *)
(* record that passes the status filter is counted under one bucket.       *)
(***************************************************************************)
C4_NoRecordDroppedByBucketing ==
  (IsOk /\ op \in TwoAging \cup { AllAging }) =>
    SumSeq([ b \in 1..Len(labels) |-> BucketTotal(b) ]) = Count(Countable)

(***************************************************************************)
(* C5: every record that agging_open_pivot_dict or                         *)
(* agging_open_close_pivot_dict returns has COMPLAINT TYPE, the six bucket *)
(* fields in the order of the labels, and Grand_Total; a bucket without    *)
(* records holds 0; and the selection of the six columns fails only on a   *)
(* table without rows, never because some bucket holds no record.          *)
(***************************************************************************)
FieldNames(row) == [ k \in 1..Len(row) |-> row[k][1] ]

C5_SixBucketsInOrder ==
  (op \in TwoAging) =>
    /\ IsOk =>
         \A i \in 1..Len(Rows) :
           /\ FieldNames(Rows[i]) =
                << COMPLAINT_TYPE_COL >> \o labels \o << Grand_Total >>
           /\ \A b \in 1..Len(labels) :
                LET InBucket(r) == Considered(r) /\ Age_Bucket(r, today) = b
                IN  Count(InBucket) = 0 => Rows[i][b + 1][2] = 0
    /\ result.error = "KeyError" => Count(Considered) = 0

(* One record in the first bucket: the other five are reported as 0. *)
C5_Witness ==
  /\ IsOk
  /\ op = "agging_open_close_pivot_dict"
  /\ Len(dataset) = 1
  /\ Rows[1][2] = << labels[1], 1 >>
  /\ Rows[1][7] = << labels[6], 0 >>

(***************************************************************************)
(* C6: open_complaint_pivot counts the records whose status is 'open'      *)
(* after trimming and ignoring case: the cell of complaint type t and      *)
(* department d is the number of these records with type t and department  *)
(* d, and no other record adds to a cell or to a total.                    *)
(***************************************************************************)
OpenWithKeys(r) == IsOpen(r) /\ ~IsNaN(r.COMPLAINT_TYPE) /\ ~IsNaN(r.DEPT)

C6_CellsCountOpenRecords ==
  (IsOk /\ op = "open_complaint_pivot") =>
    /\ \A k1, k2 \in 1..Len(dataset) :
         (OpenWithKeys(dataset[k1]) /\ OpenWithKeys(dataset[k2])) =>
           LET t == dataset[k1].COMPLAINT_TYPE
               d == dataset[k2].DEPT
               Same(r) == IsOpen(r) /\ r.COMPLAINT_TYPE = t /\ r.DEPT = d
           IN  \E i \in 1..Len(Rows) :
                 /\ Field(Rows[i], COMPLAINT_TYPE_COL) = t
                 /\ HasField(Rows[i], d)
                 /\ Field(Rows[i], d) = Count(Same)
    /\ Corner <= Count(IsOpen)

(***************************************************************************)
(* C7: in open_complaint_pivot, Open records whose complaint types differ  *)
(* only by surrounding whitespace or case are counted in one row, and      *)
(* those whose departments differ only so in one column, under the         *)
(* trimmed, title-cased value.                                             *)
(***************************************************************************)
Fold(v) == lower(strip(astype_str(v)))

RowsLike(v) ==
  { i \in 1..Len(Rows) : Fold(Field(Rows[i], COMPLAINT_TYPE_COL)) = Fold(v) }

ColumnsLike(name) ==
  { k \in 2..Len(Rows[1]) : Fold(Rows[1][k][1]) = Fold(name) }

C7_VariantsShareRowAndColumn ==
  (IsOk /\ op = "open_complaint_pivot") =>
    \A k \in 1..Len(dataset) :
      OpenWithKeys(dataset[k]) =>
        /\ Cardinality(RowsLike(dataset[k].COMPLAINT_TYPE)) = 1
        /\ Cardinality(ColumnsLike(dataset[k].DEPT)) = 1
        /\ \E i \in 1..Len(Rows) :
             /\ Field(Rows[i], COMPLAINT_TYPE_COL) =
                  title(strip(dataset[k].COMPLAINT_TYPE))
             /\ HasField(Rows[i], title(strip(dataset[k].DEPT)))

(***************************************************************************)
(* C8: open_close_complaint_pivot trims and title-cases complaint type,    *)
(* department and status before it groups: records whose values differ     *)
(* only by surrounding whitespace or case are counted in one row and one   *)
(* composite column, and no two rows and no two columns of the result      *)
(* differ only by whitespace or case.                                      *)
(***************************************************************************)
Composite(d, s) == d \o << "_" >> \o s

C8_CleanedBeforeGrouping ==
  (IsOk /\ op = "open_close_complaint_pivot") =>
    /\ \A k \in 1..Len(dataset) :
         LET r == dataset[k]
             column == Composite(title(strip(astype_str(r.DEPT))),
                                 title(strip(astype_str(r.CLOSED_OPEN))))
             SameColumn(q) == /\ Fold(q.DEPT) = Fold(r.DEPT)
                              /\ Fold(q.CLOSED_OPEN) = Fold(r.CLOSED_OPEN)
             SameRow(q) == Fold(q.COMPLAINT_TYPE) = Fold(r.COMPLAINT_TYPE)
         IN  /\ Cardinality(RowsLike(r.COMPLAINT_TYPE)) = 1
             /\ Cardinality(ColumnsLike(column)) = 1
             /\ \E i \in 1..Len(Rows) :
                  /\ Field(Rows[i], COMPLAINT_TYPE_COL) =
                       title(strip(astype_str(r.COMPLAINT_TYPE)))
                  /\ HasField(Rows[i], column)
                  \* the Grand_Total row holds the totals, not the counts
                  \* of a complaint type
                  /\ i # TotalRow => Field(Rows[i], Grand_Total) = Count(SameRow)
             /\ Field(Rows[TotalRow], column) = Count(SameColumn)
    /\ \A i, j \in 1..Len(Rows) :
         Fold(Field(Rows[i], COMPLAINT_TYPE_COL)) =
           Fold(Field(Rows[j], COMPLAINT_TYPE_COL)) => i = j
    /\ \A k, l \in 1..Len(Rows[1]) :
         Fold(Rows[1][k][1]) = Fold(Rows[1][l][1]) => k = l

(* Two records that differ by whitespace and case in all three values are  *)
(* one row and one column.                                                 *)
C8_Witness ==
  /\ IsOk
  /\ op = "open_close_complaint_pivot"
  /\ dataset = << Record(Num(1), leak_padded, WATER_padded, Open, Recent),
                  Record(Num(1), Leak, Water, OPEN_padded, Recent) >>
  /\ Len(Rows) = 2
  /\ Rows[1] = << << COMPLAINT_TYPE_COL, Leak >>,
                  << Composite(Water, Open), 2 >>,
                  << Grand_Total, 2 >> >>

(***************************************************************************)
(* C9: in open_close_complaint_pivot and open_close_complaint_report, for  *)
(* every complaint type t and every pair of department d and status s of   *)
(* the table, the row of t has a field d_s that holds the number of        *)
(* records with t, d and s.                                                *)
(***************************************************************************)
TypeKey(r) == title(strip(astype_str(r.COMPLAINT_TYPE)))

DeptKey(r) ==
  IF op = "open_close_complaint_pivot"
  THEN title(strip(astype_str(r.DEPT))) ELSE r.DEPT

StatusKey(r) ==
  IF op = "open_close_complaint_pivot"
  THEN title(strip(astype_str(r.CLOSED_OPEN))) ELSE r.CLOSED_OPEN

(* open_close_complaint_report groups department and status as read: the   *)
(* pairs of the table are those of the records that have both.             *)
HasPair(r) ==
  op = "open_close_complaint_report" => ~IsNaN(r.DEPT) /\ ~IsNaN(r.CLOSED_OPEN)

C9_FieldPerDeptAndStatus ==
  (IsOk /\ op \in { "open_close_complaint_pivot", "open_close_complaint_report" }) =>
    \A k1, k2 \in 1..Len(dataset) :
      (HasPair(dataset[k1]) /\ HasPair(dataset[k2])) =>
        LET t == TypeKey(dataset[k1])
            d == DeptKey(dataset[k2])
            s == StatusKey(dataset[k2])
            Same(r) == /\ HasPair(r)
                       /\ TypeKey(r) = t /\ DeptKey(r) = d /\ StatusKey(r) = s
        IN  \E i \in 1..Len(Rows) :
              /\ Field(Rows[i], COMPLAINT_TYPE_COL) = t
              /\ HasField(Rows[i], Composite(d, s))
              /\ Field(Rows[i], Composite(d, s)) = Count(Same)

(***************************************************************************)
(* C10: the cell of complaint type t and bucket b is the number of records *)
(* of type t in bucket b in agging_open_close_pivot_dict, and the number   *)
(* of those that are Open in agging_open_pivot_dict, which is therefore    *)
(* at most the cell of agging_open_close_pivot_dict on the same table.     *)
(***************************************************************************)
C10_OpenCellsWithinAllCells ==
  (IsOk /\ op \in TwoAging) =>
    \A k \in 1..Len(dataset) :
      Countable(dataset[k]) =>
        \E i \in 1..Len(Rows) :
          /\ Field(Rows[i], COMPLAINT_TYPE_COL) = TypeKey(dataset[k])
          /\ \A b \in 1..Len(labels) :
               LET Same(r) == /\ Countable(r)
                              /\ TypeKey(r) = TypeKey(dataset[k])
                              /\ HasAge(r)
                              /\ ClaimedBucket(today - r.DATE.day) = b
                   all == agging_open_close_pivot_dict(dataset, today)
               IN  /\ Field(Rows[i], labels[b]) = Count(Same)
                   /\ (op = "agging_open_pivot_dict" /\ all.status = "ok") =>
                        \E j \in 1..Len(all.table) :
                          /\ Field(all.table[j], COMPLAINT_TYPE_COL) =
                               TypeKey(dataset[k])
                          /\ Field(Rows[i], labels[b]) <=
                               Field(all.table[j], labels[b])

(***************************************************************************)
(* C11: every report is an ordered sequence of row records, one for each   *)
(* complaint type of the records considered and one for Grand_Total, all   *)
(* with the same field names; it is not a mapping keyed by column.         *)
(***************************************************************************)
RowTypes ==
  { CleanType(dataset[k]) : k \in { n \in 1..Len(dataset) : Considered(dataset[n]) } }

FieldSet(row) == { row[k][1] : k \in 1..Len(row) }

C11_RowRecordsWithSameFields ==
  IsOk =>
    /\ result.shape # "columns"
    /\ Len(Rows) = Cardinality(RowTypes) + 1
    /\ \A i, j \in 1..Len(Rows) : FieldSet(Rows[i]) = FieldSet(Rows[j])

(***************************************************************************)
(* C12: every row record of a report has a COMPLAINT TYPE field, its last  *)
(* field is Grand_Total, and the record whose COMPLAINT TYPE is            *)
(* Grand_Total is the last record and the only one of that name.           *)
(***************************************************************************)
C12_TypeFieldAndTotalsLast ==
  IsOk =>
    /\ \A i \in 1..Len(Rows) :
         /\ HasField(Rows[i], COMPLAINT_TYPE_COL)
         /\ Rows[i][Len(Rows[i])][1] = TotalField
    /\ Len(Rows) >= 1
    /\ Field(Rows[Len(Rows)], COMPLAINT_TYPE_COL) = Grand_Total
    /\ Cardinality({ i \in 1..Len(Rows) :
                       Field(Rows[i], COMPLAINT_TYPE_COL) = Grand_Total }) = 1

(***************************************************************************)
(* C13: in every report, every count cell of every row other than the      *)
(* Grand_Total row is a non-negative integer.                              *)
(***************************************************************************)
IsCountField(name) == op = AllAging \/ name # COMPLAINT_TYPE_COL

C13_CountsAreNonNegativeIntegers ==
  IsOk =>
    \A i \in DataRows : \A k \in 1..Len(Rows[i]) :
      IsCountField(Rows[i][k][1]) => Rows[i][k][2] \in Nat

(* A report in which a data row has a cell that fill_value=0 filled, for   *)
(* a department that only another complaint type has, and a cell that      *)
(* counts a record.                                                        *)
C13_Witness ==
  /\ IsOk
  /\ op = "open_complaint_pivot"
  /\ \E i \in DataRows : \E k, l \in 1..Len(Rows[i]) :
       /\ IsCountField(Rows[i][k][1]) /\ Rows[i][k][2] = 0
       /\ IsCountField(Rows[i][l][1]) /\ Rows[i][l][2] > 0

(***************************************************************************)
(* C14: on a table without Open records, open_complaint_pivot and          *)
(* agging_open_pivot_dict return a report of exactly one row, Grand_Total, *)
(* whose counts are all zero.                                              *)
(***************************************************************************)
NoOpenRecords == \A k \in 1..Len(dataset) : ~IsOpen(dataset[k])

C14_NoOpenRecordsGivesZeroTotals ==
  (OpenOnly /\ NoOpenRecords) =>
    /\ IsOk
    /\ Len(Rows) = 1
    /\ HasField(Rows[1], COMPLAINT_TYPE_COL)
    /\ Field(Rows[1], COMPLAINT_TYPE_COL) = Grand_Total
    /\ \A k \in 1..Len(Rows[1]) :
         Rows[1][k][1] # COMPLAINT_TYPE_COL => Rows[1][k][2] = 0

(***************************************************************************)
(* C15: a report function called on a spreadsheet that lacks a column the  *)
(* report requires fails with an error and returns no report.  Required    *)
(* are the complaint type and the status for every report, the department  *)
(* for the reports by department, the filed date for the aging reports and *)
(* the serial id for the report that counts serial ids.                    *)
(***************************************************************************)
Required ==
  [ open_complaint_pivot |-> { Col_COMPLAINT_TYPE, Col_DEPT, Col_CLOSED_OPEN },
    open_close_complaint_pivot |->
      { Col_COMPLAINT_TYPE, Col_DEPT, Col_CLOSED_OPEN },
    agging_open_pivot_dict |-> { Col_COMPLAINT_TYPE, Col_CLOSED_OPEN, Col_DATE },
    agging_open_close_pivot_dict |->
      { Col_COMPLAINT_TYPE, Col_CLOSED_OPEN, Col_DATE },
    generate_all_agging_complaint_report |-> AllColumns,
    open_close_complaint_report |->
      { Col_COMPLAINT_TYPE, Col_DEPT, Col_CLOSED_OPEN } ]

C15_MissingColumnFails ==
  (op # "none" /\ Required[op] \ header # {}) =>
    /\ result.status = "error"
    /\ result.table = << >>

(* The report that counts serial ids, called on a spreadsheet that has     *)
(* every column but SL.NO and a record every other report accepts.         *)
C15_Witness ==
  /\ op = AllAging
  /\ header = AllColumns \ { Col_SL_NO }
  /\ report_of_rows(op, dataset, today).status = "ok"
  /\ result.error = "KeyError"

(***************************************************************************)
(* Reading the requests of the service.                                    *)
(***************************************************************************)
(* A report request that read the file and whose response is made. *)
Served(r) ==
  /\ requests[r].pc = "done"
  /\ requests[r].endpoint \in Endpoints
  /\ requests[r].seen # NoFrame

(***************************************************************************)
(* C16: two calls of the same report on the same stored spreadsheet and    *)
(* with the same reference time give the same output, whatever was called  *)
(* between them.                                                           *)
(***************************************************************************)
C16_SameCallSameOutput ==
  \A a, b \in Requests :
    ( /\ Served(a) /\ Served(b)
      /\ requests[a].endpoint = requests[b].endpoint
      /\ requests[a].seen = requests[b].seen
      /\ requests[a].now = requests[b].now ) =>
      requests[a].response = requests[b].response

(* Two calls of open_complaint_pivot on the same spreadsheet, on the same  *)
(* day, both answered with a report of the two spellings of one type.      *)
C16_Witness ==
  \E a, b \in Requests :
    /\ a # b
    /\ Served(a) /\ Served(b)
    /\ requests[a].endpoint = "open_complaint_pivot"
    /\ requests[b].endpoint = "open_complaint_pivot"
    /\ requests[a].seen = requests[b].seen
    /\ requests[a].now = requests[b].now
    /\ requests[a].response.status_code = 200
    /\ Len(requests[a].response.content) = 3

(***************************************************************************)
(* C17: however the steps of the requests interleave, the response of a    *)
(* request is the one its handler makes alone of the spreadsheet it read,  *)
(* and a step of a request changes neither the stored spreadsheet nor      *)
(* another request.                                                        *)
(***************************************************************************)
AloneResponse(r) ==
  respond(report(requests[r].endpoint, requests[r].seen, requests[r].now))

RequestStepIsLocal ==
  (requests' # requests) =>
    /\ dataset' = dataset /\ header' = header /\ exists' = exists
    /\ \E r \in Requests :
         \A q \in Requests \ { r } : requests'[q] = requests[q]

C17_RequestsDoNotInterfere ==
  /\ [](\A r \in Requests : Served(r) => requests[r].response = AloneResponse(r))
  /\ [][RequestStepIsLocal]_vars

(* A request is answered while the other one holds a frame it loaded and   *)
(* cleaned in place.                                                       *)
C17_Witness ==
  \E a, b \in Requests :
    /\ a # b
    /\ Served(a) /\ Served(b)
    /\ requests[a].seen = requests[b].seen
    /\ requests[a].df # requests[a].seen
    /\ requests[b].endpoint = "open_complaint_pivot"
    /\ requests[a].endpoint = "open_close_complaint_pivot"
    /\ requests[b].response.status_code = 200

(***************************************************************************)
(* C18: every report request reads the spreadsheet that is stored when it  *)
(* reads, computes its response from that frame alone, and a handler that  *)
(* has not read holds no frame.                                            *)
(***************************************************************************)
ReadsStoredSpreadsheet ==
  \A r \in Requests :
    /\ (requests[r].pc = "read" /\ requests'[r].pc = "compute") =>
         requests'[r].df = [columns |-> header, rows |-> dataset]
    /\ (requests[r].pc = "compute" /\ requests'[r].pc = "done") =>
         requests'[r].response =
           respond(report(requests[r].endpoint, requests[r].df, today))

NothingRetained ==
  \A r \in Requests :
    requests[r].pc \in { "idle", "read" } => requests[r].df = NoFrame

C18_EveryCallReadsStorage ==
  /\ []NothingRetained
  /\ [][ReadsStoredSpreadsheet]_vars

(* The spreadsheet was replaced between two requests: one was answered     *)
(* from the old one, the other holds the new one, which is stored now.     *)
C18_Witness ==
  \E a, b \in Requests :
    /\ Served(a)
    /\ requests[b].pc = "compute"
    /\ requests[b].df # requests[a].seen
    /\ requests[b].df = [columns |-> header, rows |-> dataset]
    /\ exists

(***************************************************************************)
(* C19: /healthcheck answers 200, with status healthy and                  *)
(* dataset_available true when a file exists at dataset_path at the time   *)
(* of the request, with degraded and false when none exists.               *)
(***************************************************************************)
HealthcheckTellsExistence ==
  \A r \in Requests :
    (requests[r].pc = "idle" /\ requests'[r].endpoint = "healthcheck") =>
      /\ requests'[r].pc = "done"
      /\ requests'[r].response.status_code = 200
      /\ exists =>
           /\ requests'[r].response.health = "healthy"
           /\ requests'[r].response.dataset_available = TRUE
      /\ ~exists =>
           /\ requests'[r].response.health = "degraded"
           /\ requests'[r].response.dataset_available = FALSE

C19_HealthcheckReportsTheFile == [][HealthcheckTellsExistence]_vars

(* One health check answered before the file was saved, one after. *)
C19_Witness ==
  \E a, b \in Requests :
    /\ requests[a].endpoint = "healthcheck"
    /\ requests[b].endpoint = "healthcheck"
    /\ requests[a].response.health = "degraded"
    /\ requests[b].response.health = "healthy"
    /\ requests[a].response.status_code = 200
    /\ requests[b].response.status_code = 200

(***************************************************************************)
(* C20: a report endpoint answers 404 "Dataset not found" when no file     *)
(* exists at its check, 500 "Internal server error" when the report        *)
(* function raises, and 200 with the report otherwise.                     *)
(***************************************************************************)
Answers(r, status_code, error) ==
  /\ requests'[r].pc = "done"
  /\ requests'[r].response.status_code = status_code
  /\ requests'[r].response.error = error

HandlerAnswers ==
  \A r \in Requests :
    /\ (requests[r].pc = "idle" /\ requests'[r].endpoint \in Endpoints) =>
         IF exists THEN requests'[r].pc = "read"
         ELSE Answers(r, 404, "Dataset not found")
    /\ (requests[r].pc = "read" /\ requests'[r] # requests[r] /\ ~exists) =>
         Answers(r, 500, "Internal server error")
    /\ (requests[r].pc = "compute" /\ requests'[r] # requests[r]) =>
         LET outcome == report(requests[r].endpoint, requests[r].df, today)
         IN  IF outcome.status = "ok"
             THEN /\ Answers(r, 200, "")
                  /\ requests'[r].response.content = outcome.table
             ELSE Answers(r, 500, "Internal server error")

C20_HandlerStatusCodes == [][HandlerAnswers]_vars

(* One request answered 404, then, the file saved, one answered 500 for a  *)
(* spreadsheet without DATE.                                               *)
C20_Witness ==
  \E a, b \in Requests :
    /\ requests[a].pc = "done" /\ requests[a].endpoint \in Endpoints
    /\ requests[a].response.status_code = 404
    /\ Served(b)
    /\ requests[b].response.status_code = 500
    /\ Col_DATE \notin requests[b].seen.columns

(***************************************************************************)
(* C21: a report request that finds no file at dataset_path is answered    *)
(* 404 and never 500, whether it finds that at the handler's check or at   *)
(* the read of the report function, however the upload that removes the    *)
(* files of data/raw interleaves with it.                                  *)
(***************************************************************************)
FoundFileAbsent(r) ==
  /\ requests[r].pc = "done"
  /\ requests[r].endpoint \in Endpoints
  /\ requests[r].seen = NoFrame

C21_AbsentFileAnswers404 ==
  \A r \in Requests :
    FoundFileAbsent(r) => requests[r].response.status_code = 404

(***************************************************************************)
(* Reading the runs of the dashboard.                                      *)
(***************************************************************************)
Files(dir) == { n \in FileNames : dir[n].kind = "file" }

(* The run is over and no error occurred in it: st.success was shown and   *)
(* no removal error was logged.                                            *)
HandledWithoutError ==
  /\ upload.pc = "done"
  /\ upload.shown = "success"
  /\ upload.logged = {}

(***************************************************************************)
(* C22: after a run that handled the upload without error, the only file   *)
(* of data/raw is the uploaded one, under its name and with its content,   *)
(* and when the run repeated an upload handled without error the directory *)
(* is as the run before left it.                                           *)
(***************************************************************************)
C22_OnlyTheUploadedFileRemains ==
  HandledWithoutError =>
    /\ Files(raw_dir) = { upload.uploaded_file.name }
    /\ raw_dir[upload.uploaded_file.name] = File(upload.uploaded_file.content)
    /\ upload.rerun => raw_dir = upload.left

(* A rerun that found the uploaded file alone in the directory, removed it *)
(* and saved it again.                                                     *)
C22_Witness ==
  /\ HandledWithoutError
  /\ upload.rerun
  /\ Files(upload.before) = { upload.uploaded_file.name }
  /\ Files(raw_dir) = { upload.uploaded_file.name }

(* A first run that removed a file of another name and one of the same     *)
(* name with another content.                                              *)
C22_WitnessReplaced ==
  /\ HandledWithoutError
  /\ ~upload.rerun
  /\ Files(upload.before) = FileNames
  /\ upload.before[upload.uploaded_file.name] #
       File(upload.uploaded_file.content)

(***************************************************************************)
(* C23: when the save of the uploaded file fails, st.error is shown and    *)
(* the files that were in data/raw when the run began are still there,     *)
(* with their contents.                                                    *)
(***************************************************************************)
C23_FailedUploadKeepsFiles ==
  (upload.pc = "done" /\ upload.shown = "error") =>
    \A n \in Files(upload.before) : raw_dir[n] = upload.before[n]

(***************************************************************************)
(* Reading the runs of the launcher.                                       *)
(***************************************************************************)
Started(c) == children[c].state # "none"
Stopped(c) == children[c].state # "running"
Exited == launcher.pc = "exited"

(***************************************************************************)
(* C24: Flask and Streamlit are started only when wait_for_api has         *)
(* returned True, after FastAPI, and Streamlit only after Flask.           *)
(***************************************************************************)
C24_OthersStartAfterHealthCheck ==
  /\ Started("Flask") =>
       Started("FastAPI") /\ launcher.api_ready = "true"
  /\ Started("Streamlit") => Started("Flask")

(* The three are started, the health check having failed twice first. *)
C24_Witness ==
  /\ \A c \in ServerNames : Started(c)
  /\ processes = Servers
  /\ launcher.i = 2
  /\ launcher.api_ready = "true"

(***************************************************************************)
(* C25: wait_for_api makes at most max_attempts attempts and returns False *)
(* at the attempt that finds them used up or shutdown_event set; once it   *)
(* has returned False, Flask and Streamlit are never started, and the      *)
(* launcher ends with FastAPI sent terminate and no longer running.        *)
(***************************************************************************)
GaveUp == launcher.api_ready = "false"

AttemptGivesUp ==
  ( /\ at("wait")
    /\ shutdown_event \/ launcher.i = max_attempts
    /\ launcher'.pc # launcher.pc
    /\ ~launcher'.stop.active ) => launcher'.api_ready = "false"

C25_GivesUpAndStopsFastAPI ==
  /\ [](launcher.i <= max_attempts)
  /\ [][AttemptGivesUp]_vars
  /\ [](GaveUp => ~Started("Flask") /\ ~Started("Streamlit"))
  /\ GaveUp ~> ( /\ Exited
                 /\ Stopped("FastAPI")
                 /\ children["FastAPI"].calls # << >> )

(* Thirty attempts failed, no signal came, and the launcher has stopped    *)
(* FastAPI and ended.                                                      *)
C25_Witness ==
  /\ GaveUp
  /\ launcher.i = max_attempts
  /\ launcher.signals = 0
  /\ Exited
  /\ children["FastAPI"].calls # << >>
  /\ Stopped("FastAPI")

(***************************************************************************)
(* C26: when the launcher watches the three servers and one of them has    *)
(* exited, the launcher ends with no child running; a child is sent        *)
(* terminate first, and kill only when it is still running at the timeout. *)
(***************************************************************************)
TerminateThenKill ==
  \A c \in ServerNames :
    children'[c].calls # children[c].calls =>
      \/ /\ children[c].calls = << >>
         /\ children'[c].calls = << "terminate" >>
      \/ /\ children[c].calls = << "terminate" >>
         /\ children[c].state = "running"
         /\ children'[c].calls = << "terminate", "kill" >>

C26_ChildExitStopsAll ==
  /\ [][TerminateThenKill]_vars
  /\ (launcher.pc = "monitor" /\ \E c \in ServerNames : Stopped(c)) ~>
       (Exited /\ \A c \in ServerNames : Stopped(c))

(* Without a signal: one server exited by itself, one exited on terminate, *)
(* one was killed, and the launcher has ended.                             *)
C26_Witness ==
  /\ Exited
  /\ launcher.signals = 0
  /\ processes = Servers
  /\ \E c \in ServerNames :
       children[c].state = "killed" /\ children[c].calls = << "terminate", "kill" >>
  /\ \E c \in ServerNames :
       children[c].state = "exited" /\ children[c].calls = << "terminate" >>

(***************************************************************************)
(* C27: after a signal, the launcher ends, every child that was started    *)
(* has been sent terminate or kill by then, no child is started once a     *)
(* signal was delivered, and no child is sent terminate twice.             *)
(***************************************************************************)
Signalled == launcher.signals > 0

NoStartAfterSignal ==
  \A c \in ServerNames : (~Started(c) /\ Started(c)') => ~Signalled

C27_SignalStopsEveryChild ==
  /\ []((Signalled /\ Exited) =>
         \A c \in ServerNames : Started(c) => children[c].calls # << >>)
  /\ [][NoStartAfterSignal]_vars
  /\ [](\A c \in ServerNames :
          children[c].calls \in
            { << >>, << "terminate" >>, << "terminate", "kill" >> })
  /\ Signalled ~> Exited

(***************************************************************************)
(* C28: what a fetcher that made its request returns, against what the API *)
(* answered (fetched.answer): (table, None, 200) exactly for a 200         *)
(* with a body that is not empty, (None, "No data available", 200) for a   *)
(* 200 with an empty body, (None, "API error: <status>", status) for no    *)
(* response or another status, (None, message, None) when the request      *)
(* raised.                                                                 *)
(***************************************************************************)
ApiError(status) == [text |-> "API error: ", of |-> "", status |-> status]

Meets(answer, value) ==
  /\ answer.kind = "raises" =>
       value.table = None /\ value.error # None /\ value.status = None
  /\ answer.kind = "none" =>
       value = Returned(None, Some(ApiError(None)), None)
  /\ (answer.kind = "response" /\ answer.status_code # 200) =>
       value = Returned(None, Some(ApiError(Some(answer.status_code))),
                        Some(answer.status_code))
  /\ (answer.kind = "response" /\ answer.status_code = 200
        /\ answer.text = EmptyBody) =>
       /\ value.table = None
       /\ \E e \in value.error : e.text = "No data available"
       /\ value.status = Some(200)
  /\ (answer.kind = "response" /\ answer.status_code = 200
        /\ answer.text # EmptyBody) <=>
       (value.table # None /\ value.error = None /\ value.status = Some(200))

C28_FetcherReturns ==
  (fetched.fetcher # "none" /\ ~fetched.hit) =>
    Meets(fetched.answer, fetched.value)

(***************************************************************************)
(* C29: in open_close_complaint_pivot and open_close_complaint_report, two *)
(* different pairs of department and status of the table have different    *)
(* flattened names, none of them is Grand_Total, and in the report every   *)
(* pair has its field in the row of every complaint type, with the number  *)
(* of records of that type and pair, and the data fields of every record   *)
(* sum to its Grand_Total field.                                           *)
(***************************************************************************)
TwoFlattened == { "open_close_complaint_pivot", "open_close_complaint_report" }

PairKeys ==
  { << DeptKey(dataset[k]), StatusKey(dataset[k]) >> :
      k \in { n \in 1..Len(dataset) : HasPair(dataset[n]) } }

Flattened(pair) == strip_us(join_us(pair))

C29_FlatteningIsInjective ==
  op \in TwoFlattened =>
    /\ \A p, q \in PairKeys : p # q => Flattened(p) # Flattened(q)
    /\ \A p \in PairKeys : Flattened(p) # Grand_Total
    /\ IsOk =>
         /\ \A p \in PairKeys : \A i \in DataRows :
              LET Same(r) ==
                    /\ HasPair(r)
                    /\ TypeKey(r) = Field(Rows[i], COMPLAINT_TYPE_COL)
                    /\ << DeptKey(r), StatusKey(r) >> = p
              IN  /\ HasField(Rows[i], Flattened(p))
                  /\ Field(Rows[i], Flattened(p)) = Count(Same)
         /\ \A i \in 1..Len(Rows) :
              Field(Rows[i], Grand_Total) = DataSum(Rows[i])

(***************************************************************************)
(* C30: in open_complaint_pivot and open_close_complaint_pivot the totals  *)
(* are added next to the data: the report has one row for every complaint  *)
(* type of the counted records and the Grand_Total row besides, and every  *)
(* row has one field for every column key and the COMPLAINT TYPE and       *)
(* Grand_Total fields besides.                                             *)
(***************************************************************************)
TwoPivots == { "open_complaint_pivot", "open_close_complaint_pivot" }

Counted(r) ==
  op = "open_complaint_pivot" =>
    IsOpen(r) /\ ~IsNaN(r.COMPLAINT_TYPE) /\ ~IsNaN(r.DEPT)

CountedRecords == { k \in 1..Len(dataset) : Counted(dataset[k]) }

RowKeys ==
  { IF op = "open_complaint_pivot" THEN dataset[k].COMPLAINT_TYPE
    ELSE clean(dataset[k].COMPLAINT_TYPE) : k \in CountedRecords }

ColumnKeys ==
  { IF op = "open_complaint_pivot" THEN dataset[k].DEPT
    ELSE Composite(clean(dataset[k].DEPT), clean(dataset[k].CLOSED_OPEN)) :
      k \in CountedRecords }

C30_TotalsReplaceNoData ==
  (IsOk /\ op \in TwoPivots) =>
    /\ Len(Rows) = Cardinality(RowKeys) + 1
    /\ \A i \in 1..Len(Rows) : Len(Rows[i]) = Cardinality(ColumnKeys) + 2
    /\ \A t \in RowKeys : \A c \in ColumnKeys :
         LET Same(r) ==
               /\ Counted(r)
               /\ (IF op = "open_complaint_pivot" THEN r.COMPLAINT_TYPE
                   ELSE clean(r.COMPLAINT_TYPE)) = t
               /\ (IF op = "open_complaint_pivot" THEN r.DEPT
                   ELSE Composite(clean(r.DEPT), clean(r.CLOSED_OPEN))) = c
         IN  \E i \in 1..Len(Rows) :
               /\ Field(Rows[i], COMPLAINT_TYPE_COL) = t
               /\ HasField(Rows[i], c)
               /\ Field(Rows[i], c) = Count(Same)

====
